---- MODULE Spec2Model ----
(***************************************************************************)
(* Model of the musicbox playback controller (musicbox/src/controller.rs)  *)
(* as driven by card taps and by whole-library replacement from the debug  *)
(* dashboard (src/web.rs).  The audio player is an external capability:    *)
(* each of its calls succeeds or fails, chosen by the environment.         *)
(***************************************************************************)
EXTENDS Integers, Sequences, FiniteSets, TLC

(* ------------------------------ bounds --------------------------------- *)

\* number of distinct card identities that can be presented
NumCards == 3
\* longest same-card tap run whose call log and results are recorded
MaxTaps == 4
\* longest run of same-identity polls on one channel whose events are recorded
MaxPolls == 3
\* The longest byte sequence and the longest string given to the hex codec
MaxBytes == 2
MaxChars == 3
\* The most keys a cards table given to the loader has
MaxKeys == 2
\* The most calls made on the telemetry sink
MaxRecords == 3
\* The most calls made on the no-op reader
MaxNoopCalls == 6
\* The most polls counted after a card was seated for good
MaxSeatedPolls == 3
\* The write() calls one write_all makes at most
MaxWrites == 2

(* --------------------------- data model -------------------------------- *)

\* Option<T>: None is the empty sequence, Some(x) the one-element sequence
None == <<>>
Some(x) == <<x>>
IsSome(o) == o # None
Unwrap(o) == o[1]

\* CardUid(Vec<u8>): a card identity is its byte sequence
CardUid(i) == <<2 * i - 1, 2 * i>>
Cards == {CardUid(i) : i \in 1..NumCards}

\* Track { path }
Track(p) == [path |-> p]
Tracks == {Track("song1.mp3"), Track("song2.mp3")}

\* Library { tracks: HashMap<CardUid, Track> }: a finite map card -> track
Libraries == UNION {[D -> Tracks] : D \in SUBSET Cards}

\* Library::lookup: Option<&Track>
Lookup(lib, uid) == IF uid \in DOMAIN lib THEN Some(lib[uid]) ELSE None

\* struct ActiveTrack { card, track }
ActiveTrack(c, t) == [card |-> c, track |-> t]

\* enum ControllerAction
Started(c, t) == [kind |-> "Started", card |-> c, track |-> t]
Stopped(c, t) == [kind |-> "Stopped", card |-> c, track |-> t]
Switched(fc, ft, tc, tt) ==
    [kind |-> "Switched", from_card |-> fc, from_track |-> ft,
     to_card |-> tc, to_track |-> tt]

\* enum ControllerError
TrackNotFound == [kind |-> "TrackNotFound"]
Audio == [kind |-> "Audio"]

\* Result<ControllerAction, ControllerError>
Ok(v) == [ok |-> TRUE, value |-> v]
Err(e) == [ok |-> FALSE, value |-> e]

\* One call received by the player, with the outcome the player gave it
PlayCall(t, ok) == [op |-> "play", track |-> Some(t), ok |-> ok]
StopCall(ok) == [op |-> "stop", track |-> None, ok |-> ok]

\* What one controller entry point leaves behind: the new active state, the
\* player calls it made (in order) and the value it returned
Outcome(a, cs, r) == [active |-> a, calls |-> cs, result |-> r]

(* ---------------- MusicBoxController::handle_card ---------------------- *)

\* Variant of ToggleOff that forgets to clear the active state after stop()
ToggleOff_KeepsActive(act, stopOk) ==
    IF stopOk
    THEN Outcome(Some(act), <<StopCall(TRUE)>>, Ok(Stopped(act.card, act.track)))
    ELSE Outcome(Some(act), <<StopCall(FALSE)>>, Err(Audio))

\* Variant of ToggleOff that clears the active state before stop() is confirmed
ToggleOff_ClearsFirst(act, stopOk) ==
    IF stopOk
    THEN Outcome(None, <<StopCall(TRUE)>>, Ok(Stopped(act.card, act.track)))
    ELSE Outcome(None, <<StopCall(FALSE)>>, Err(Audio))

\* Toggle-off branch: the tapped card is the active one.  stop()? returns
\* early on failure with self.active untouched; on success the action quotes
\* the previous pair and self.active becomes None.
ToggleOff(act, stopOk) ==
    IF stopOk
    THEN Outcome(None, <<StopCall(TRUE)>>, Ok(Stopped(act.card, act.track)))
    ELSE Outcome(Some(act), <<StopCall(FALSE)>>, Err(Audio))

\* Variant of SwitchTrack that starts the new track before stopping the old
SwitchTrack_PlayBeforeStop(prev, uid, track, stopOk, playOk) ==
    IF ~playOk
    THEN Outcome(None, <<PlayCall(track, FALSE)>>, Err(Audio))
    ELSE IF ~stopOk
    THEN Outcome(None, <<PlayCall(track, TRUE), StopCall(FALSE)>>, Err(Audio))
    ELSE Outcome(Some(ActiveTrack(uid, track)),
                 <<PlayCall(track, TRUE), StopCall(TRUE)>>,
                 Ok(Switched(prev.card, prev.track, uid, track)))

\* Variant of SwitchTrack that records the new pair before play() is confirmed
SwitchTrack_SetsBeforePlay(prev, uid, track, stopOk, playOk) ==
    IF ~stopOk
    THEN Outcome(None, <<StopCall(FALSE)>>, Err(Audio))
    ELSE IF ~playOk
    THEN Outcome(Some(ActiveTrack(uid, track)),
                 <<StopCall(TRUE), PlayCall(track, FALSE)>>, Err(Audio))
    ELSE Outcome(Some(ActiveTrack(uid, track)),
                 <<StopCall(TRUE), PlayCall(track, TRUE)>>,
                 Ok(Switched(prev.card, prev.track, uid, track)))

\* Variant of SwitchTrack that puts the previous pair back when play() fails
SwitchTrack_RestoresOnPlayFailure(prev, uid, track, stopOk, playOk) ==
    IF ~stopOk
    THEN Outcome(None, <<StopCall(FALSE)>>, Err(Audio))
    ELSE IF ~playOk
    THEN Outcome(Some(prev), <<StopCall(TRUE), PlayCall(track, FALSE)>>, Err(Audio))
    ELSE Outcome(Some(ActiveTrack(uid, track)),
                 <<StopCall(TRUE), PlayCall(track, TRUE)>>,
                 Ok(Switched(prev.card, prev.track, uid, track)))

\* Switch branch: another card is active and the tapped card is mapped.
\* self.active.take() has already emptied self.active when stop() and play()
\* are called, so either `?` returns with self.active = None; the new pair is
\* stored only after both calls returned Ok.
SwitchTrack(prev, uid, track, stopOk, playOk) ==
    IF ~stopOk
    THEN Outcome(None, <<StopCall(FALSE)>>, Err(Audio))
    ELSE IF ~playOk
    THEN Outcome(None, <<StopCall(TRUE), PlayCall(track, FALSE)>>, Err(Audio))
    ELSE Outcome(Some(ActiveTrack(uid, track)),
                 <<StopCall(TRUE), PlayCall(track, TRUE)>>,
                 Ok(Switched(prev.card, prev.track, uid, track)))

\* Variant of StartTrack that records the pair before play() is confirmed
StartTrack_SetsBeforePlay(uid, track, playOk) ==
    IF playOk
    THEN Outcome(Some(ActiveTrack(uid, track)), <<PlayCall(track, TRUE)>>,
                 Ok(Started(uid, track)))
    ELSE Outcome(Some(ActiveTrack(uid, track)), <<PlayCall(track, FALSE)>>, Err(Audio))

\* Start branch: nothing is active and the tapped card is mapped.
StartTrack(uid, track, playOk) ==
    IF playOk
    THEN Outcome(Some(ActiveTrack(uid, track)), <<PlayCall(track, TRUE)>>,
                 Ok(Started(uid, track)))
    ELSE Outcome(None, <<PlayCall(track, FALSE)>>, Err(Audio))

\* Variant of HandleCard that takes the active state before the lookup
HandleCard_TakesBeforeLookup(act, lib, uid, stopOk, playOk) ==
    IF IsSome(act) /\ Unwrap(act).card = uid
    THEN ToggleOff(Unwrap(act), stopOk)
    ELSE LET track == Lookup(lib, uid) IN
         IF track = None
         THEN Outcome(None, <<>>, Err(TrackNotFound))
         ELSE IF IsSome(act)
         THEN SwitchTrack(Unwrap(act), uid, Unwrap(track), stopOk, playOk)
         ELSE StartTrack(uid, Unwrap(track), playOk)

\* Variant of HandleCard without the same-card test: a re-tap is a switch
HandleCard_NoToggle(act, lib, uid, stopOk, playOk) ==
    LET track == Lookup(lib, uid) IN
    IF track = None
    THEN Outcome(act, <<>>, Err(TrackNotFound))
    ELSE IF IsSome(act)
    THEN SwitchTrack(Unwrap(act), uid, Unwrap(track), stopOk, playOk)
    ELSE StartTrack(uid, Unwrap(track), playOk)

\* handle_card(&mut self, uid): act is self.active and lib is self.library on
\* entry; stopOk / playOk are what the player answers to stop() / play() if
\* it is asked.
\* Variant of HandleCard that consults the Library before it looks at the
\* active card
HandleCard_LookupFirst(act, lib, uid, stopOk, playOk) ==
    LET track == Lookup(lib, uid) IN
    IF track = None
    THEN Outcome(act, <<>>, Err(TrackNotFound))
    ELSE IF IsSome(act) /\ Unwrap(act).card = uid
    THEN ToggleOff(Unwrap(act), stopOk)
    ELSE IF IsSome(act)
    THEN SwitchTrack(Unwrap(act), uid, Unwrap(track), stopOk, playOk)
    ELSE StartTrack(uid, Unwrap(track), playOk)

\* Variant of HandleCard that leaves playback alone when the active card is
\* tapped again
HandleCard_IgnoresActiveTap(act, lib, uid, stopOk, playOk) ==
    IF IsSome(act) /\ Unwrap(act).card = uid
    THEN Outcome(act, <<>>, Ok(Started(uid, Unwrap(act).track)))
    ELSE LET track == Lookup(lib, uid) IN
         IF track = None
         THEN Outcome(act, <<>>, Err(TrackNotFound))
         ELSE IF IsSome(act)
         THEN SwitchTrack(Unwrap(act), uid, Unwrap(track), stopOk, playOk)
         ELSE StartTrack(uid, Unwrap(track), playOk)

HandleCard(act, lib, uid, stopOk, playOk) ==
    IF IsSome(act) /\ Unwrap(act).card = uid
    THEN ToggleOff(Unwrap(act), stopOk)
    ELSE LET track == Lookup(lib, uid) IN
         IF track = None
         THEN Outcome(act, <<>>, Err(TrackNotFound))
         ELSE IF IsSome(act)
         THEN SwitchTrack(Unwrap(act), uid, Unwrap(track), stopOk, playOk)
         ELSE StartTrack(uid, Unwrap(track), playOk)

(* ------------- replacing the Library (debug dashboard) ----------------- *)

\* Variant of ReplaceLibrary that drops an active card the new library lacks
ReplaceLibrary_EvictsActive(act, lib) ==
    [library |-> lib,
     active |-> IF IsSome(act) /\ Unwrap(act).card \notin DOMAIN lib
                THEN None ELSE act]

\* replace_library(&mut self, library): the new map takes the place of the
\* old one; the active pair is not looked at and the player is not called.
ReplaceLibrary(act, lib) == [library |-> lib, active |-> act]

(* ------------------- pause (debug dashboard) --------------------------- *)

\* pause_playback(&mut self) -> Result<Option<ControllerAction>, _>: with an
\* active pair it stops the player and, once stop() returned Ok, clears the
\* pair and answers Some(Stopped{..}) for it; with nothing active it calls
\* nothing and answers None.
PausePlayback(act, stopOk) ==
    IF act = None
    THEN Outcome(None, <<>>, Ok(None))
    ELSE IF stopOk
    THEN Outcome(None, <<StopCall(TRUE)>>,
                 Ok(Some(Stopped(Unwrap(act).card, Unwrap(act).track))))
    ELSE Outcome(act, <<StopCall(FALSE)>>, Err(Audio))

\* CommandResponse { message } of the dashboard, with the action it reports
CommandResponse(maybeAction, msg) ==
    [kind |-> "CommandResponse", action |-> maybeAction, message |-> msg]
NothingToPause == "No active playback to pause"

\* Variant of PauseHandler that answers an idle pause with an error
PauseHandler_IdleIsError(act, stopOk) ==
    LET out == PausePlayback(act, stopOk) IN
    IF ~out.result.ok
    THEN Outcome(out.active, out.calls, Err([kind |-> "Controller", error |-> out.result.value]))
    ELSE IF out.result.value = None
    THEN Outcome(out.active, out.calls, Err([kind |-> "Controller", error |-> TrackNotFound]))
    ELSE Outcome(out.active, out.calls, Ok(CommandResponse(out.result.value, "action")))

\* POST /api/pause: pause_playback under the controller lock; its error is
\* returned as ApiError::Controller, Some(action) is reported as the action
\* and None as the message "No active playback to pause", both in an Ok
\* response.
PauseHandler(act, stopOk) ==
    LET out == PausePlayback(act, stopOk) IN
    IF ~out.result.ok
    THEN Outcome(out.active, out.calls, Err([kind |-> "Controller", error |-> out.result.value]))
    ELSE IF out.result.value = None
    THEN Outcome(out.active, out.calls, Ok(CommandResponse(None, NothingToPause)))
    ELSE Outcome(out.active, out.calls, Ok(CommandResponse(out.result.value, "action")))

(* ------------------ PC/SC polling driver (PcscReader) ------------------ *)

\* enum ReaderEvent
CardPresent(u) == [kind |-> "CardPresent", uid |-> u]
Idle == [kind |-> "Idle"]
Shutdown == [kind |-> "Shutdown"]

\* enum ReaderError
Backend(msg) == [kind |-> "Backend", message |-> msg]
StatusWord(sw1, sw2) == [kind |-> "StatusWord", sw1 |-> sw1, sw2 |-> sw2]
Pcsc(e) == [kind |-> "Pcsc", error |-> e]

\* The two status words read_uid and poll single out: 90 00 and 63 00
SwSuccess == <<144, 0>>
SwRetry == <<99, 0>>

\* What the PC/SC backend can answer to the four calls of one poll.
\* list_readers_owned: a non-empty list, an empty list, or a failure
ListAnswers == {Ok(<<"reader0">>), Ok(<<>>), Err("NoService")}
\* Context::connect: a card handle, no card seated, or another failure
ConnectAnswers == {Ok("card"), Err("NoSmartcard"), Err("SharingViolation")}
\* Card::status2_owned: Ok(PRESENT flag set?), removed, reset, or another failure
StatusAnswers == {Ok(TRUE), Ok(FALSE), Err("RemovedCard"), Err("ResetCard"), Err("CommError")}
\* Card::transmit of the Get-UID APDU: the response bytes (data then the two
\* status bytes), removed, reset, or another failure.  Responses: a UID with
\* 90 00, the retry word 63 00, another status word (6A 82), a one-byte reply.
Responses ==
    {u \o SwSuccess : u \in Cards} \cup {SwRetry, <<106, 130>>, <<144>>}
TransmitAnswers ==
    {Ok(r) : r \in Responses} \cup {Err("RemovedCard"), Err("ResetCard"), Err("CommError")}
BackendAnswers ==
    [list : ListAnswers, connect : ConnectAnswers,
     status : StatusAnswers, transmit : TransmitAnswers]

\* One backend call made by a poll, with the answer it got
Io(call, answer) == [call |-> call, answer |-> answer]

\* PcscReader { card, last_uid } (context and poll_interval do not change)
Driver(c, l) == [card |-> c, last_uid |-> l]
\* What connect_card / poll leave behind: the driver, the value returned and
\* the backend calls made, in order
Polled(d, r, io) == [drv |-> d, ret |-> r, io |-> io]

\* Variant of ReadUid that does not cut the status bytes off the UID
ReadUid_KeepsStatusBytes(answer) ==
    IF ~answer.ok THEN Err(Pcsc(answer.value))
    ELSE LET response == answer.value
             n == Len(response) IN
         IF n < 2 THEN Err(Backend("card UID response too short"))
         ELSE LET status == SubSeq(response, n - 1, n) IN
              IF status # SwSuccess
              THEN Err(StatusWord(status[1], status[2]))
              ELSE Ok(response)

\* read_uid(card): the transmit error as Pcsc; a reply under two bytes is a
\* Backend error; the last two bytes must be 90 00 or they come back as
\* StatusWord{sw1, sw2}; the bytes before them are the UID.
ReadUid(answer) ==
    IF ~answer.ok THEN Err(Pcsc(answer.value))
    ELSE LET response == answer.value
             n == Len(response) IN
         IF n < 2 THEN Err(Backend("card UID response too short"))
         ELSE LET data == SubSeq(response, 1, n - 2)
                  status == SubSeq(response, n - 1, n) IN
              IF status # SwSuccess
              THEN Err(StatusWord(status[1], status[2]))
              ELSE Ok(data)

\* Variant of ConnectCard that returns NoSmartcard like any other failure
ConnectCard_NoSmartcardIsError(d, env) ==
    LET io1 == <<Io("list_readers", env.list)>>
        io2 == io1 \o <<Io("connect", env.connect)>> IN
    IF ~env.list.ok THEN Polled(d, Err(Pcsc(env.list.value)), io1)
    ELSE IF env.list.value = <<>>
    THEN Polled(d, Err(Backend("no PC/SC readers available")), io1)
    ELSE IF env.connect.ok
    THEN Polled(Driver(Some(env.connect.value), None), Ok(None), io2)
    ELSE Polled(d, Err(Pcsc(env.connect.value)), io2)

\* connect_card(): list the readers (failure and the empty list are errors),
\* connect to the first; Ok stores the handle, NoSmartcard stores None, both
\* clear last_uid; any other connect failure is returned.
ConnectCard(d, env) ==
    LET io1 == <<Io("list_readers", env.list)>>
        io2 == io1 \o <<Io("connect", env.connect)>> IN
    IF ~env.list.ok THEN Polled(d, Err(Pcsc(env.list.value)), io1)
    ELSE IF env.list.value = <<>>
    THEN Polled(d, Err(Backend("no PC/SC readers available")), io1)
    ELSE IF env.connect.ok
    THEN Polled(Driver(Some(env.connect.value), None), Ok(None), io2)
    ELSE IF env.connect.value = "NoSmartcard"
    THEN Polled(Driver(None, None), Ok(None), io2)
    ELSE Polled(d, Err(Pcsc(env.connect.value)), io2)

Disconnected == Driver(None, None)
IsGone(e) == e \in {"RemovedCard", "ResetCard"}

\* Variant of PollConnected without de-duplication: every read is a tap
PollConnected_NoDedup(d, env, io0) ==
    LET io1 == io0 \o <<Io("status", env.status)>>
        io2 == io1 \o <<Io("transmit", env.transmit)>>
        uid_result == ReadUid(env.transmit) IN
    IF ~env.status.ok
    THEN IF IsGone(env.status.value)
         THEN Polled(Disconnected, Ok(None), io1)
         ELSE Polled(d, Err(Pcsc(env.status.value)), io1)
    ELSE IF ~env.status.value
    THEN Polled(Disconnected, Ok(None), io1)
    ELSE IF uid_result.ok
    THEN Polled(Driver(d.card, Some(uid_result.value)),
                Ok(Some(CardPresent(uid_result.value))), io2)
    ELSE IF uid_result.value = StatusWord(SwRetry[1], SwRetry[2])
    THEN Polled(Disconnected, Ok(None), io2)
    ELSE IF uid_result.value.kind = "Pcsc" /\ IsGone(uid_result.value.error)
    THEN Polled(Disconnected, Ok(None), io2)
    ELSE Polled(d, Err(uid_result.value), io2)

\* Variant of PollConnected that reports the first read on a channel as Idle
PollConnected_FirstReadIdle(d, env, io0) ==
    LET io1 == io0 \o <<Io("status", env.status)>>
        io2 == io1 \o <<Io("transmit", env.transmit)>>
        uid_result == ReadUid(env.transmit) IN
    IF ~env.status.ok
    THEN IF IsGone(env.status.value)
         THEN Polled(Disconnected, Ok(None), io1)
         ELSE Polled(d, Err(Pcsc(env.status.value)), io1)
    ELSE IF ~env.status.value
    THEN Polled(Disconnected, Ok(None), io1)
    ELSE IF uid_result.ok
    THEN IF d.last_uid = Some(uid_result.value)
         THEN Polled(d, Ok(Some(Idle)), io2)
         ELSE Polled(Driver(d.card, Some(uid_result.value)),
                     IF d.last_uid = None
                     THEN Ok(Some(Idle))
                     ELSE Ok(Some(CardPresent(uid_result.value))), io2)
    ELSE IF uid_result.value = StatusWord(SwRetry[1], SwRetry[2])
    THEN Polled(Disconnected, Ok(None), io2)
    ELSE IF uid_result.value.kind = "Pcsc" /\ IsGone(uid_result.value.error)
    THEN Polled(Disconnected, Ok(None), io2)
    ELSE Polled(d, Err(uid_result.value), io2)

\* Variant of PollConnected that drops the handle but keeps last_uid when the
\* card is absent, removed or reset
PollConnected_KeepsLastUid(d, env, io0) ==
    LET io1 == io0 \o <<Io("status", env.status)>>
        io2 == io1 \o <<Io("transmit", env.transmit)>>
        uid_result == ReadUid(env.transmit) IN
    IF ~env.status.ok
    THEN IF IsGone(env.status.value)
         THEN Polled(Driver(None, d.last_uid), Ok(None), io1)
         ELSE Polled(d, Err(Pcsc(env.status.value)), io1)
    ELSE IF ~env.status.value
    THEN Polled(Driver(None, d.last_uid), Ok(None), io1)
    ELSE IF uid_result.ok
    THEN IF d.last_uid = Some(uid_result.value)
         THEN Polled(d, Ok(Some(Idle)), io2)
         ELSE Polled(Driver(d.card, Some(uid_result.value)),
                     Ok(Some(CardPresent(uid_result.value))), io2)
    ELSE IF uid_result.value = StatusWord(SwRetry[1], SwRetry[2])
    THEN Polled(Disconnected, Ok(None), io2)
    ELSE IF uid_result.value.kind = "Pcsc" /\ IsGone(uid_result.value.error)
    THEN Polled(Driver(None, d.last_uid), Ok(None), io2)
    ELSE Polled(d, Err(uid_result.value), io2)

\* Variant of PollConnected that drops the handle but keeps last_uid on the
\* retry word 63 00
PollConnected_RetryKeepsLastUid(d, env, io0) ==
    LET io1 == io0 \o <<Io("status", env.status)>>
        io2 == io1 \o <<Io("transmit", env.transmit)>>
        uid_result == ReadUid(env.transmit) IN
    IF ~env.status.ok
    THEN IF IsGone(env.status.value)
         THEN Polled(Disconnected, Ok(None), io1)
         ELSE Polled(d, Err(Pcsc(env.status.value)), io1)
    ELSE IF ~env.status.value
    THEN Polled(Disconnected, Ok(None), io1)
    ELSE IF uid_result.ok
    THEN IF d.last_uid = Some(uid_result.value)
         THEN Polled(d, Ok(Some(Idle)), io2)
         ELSE Polled(Driver(d.card, Some(uid_result.value)),
                     Ok(Some(CardPresent(uid_result.value))), io2)
    ELSE IF uid_result.value = StatusWord(SwRetry[1], SwRetry[2])
    THEN Polled(Driver(None, d.last_uid), Ok(None), io2)
    ELSE IF uid_result.value.kind = "Pcsc" /\ IsGone(uid_result.value.error)
    THEN Polled(Disconnected, Ok(None), io2)
    ELSE Polled(d, Err(uid_result.value), io2)

\* Variant of PollConnected that forgets last_uid when it returns Idle
PollConnected_ForgetsOnIdle(d, env, io0) ==
    LET io1 == io0 \o <<Io("status", env.status)>>
        io2 == io1 \o <<Io("transmit", env.transmit)>>
        uid_result == ReadUid(env.transmit) IN
    IF ~env.status.ok
    THEN IF IsGone(env.status.value)
         THEN Polled(Disconnected, Ok(None), io1)
         ELSE Polled(d, Err(Pcsc(env.status.value)), io1)
    ELSE IF ~env.status.value
    THEN Polled(Disconnected, Ok(None), io1)
    ELSE IF uid_result.ok
    THEN IF d.last_uid = Some(uid_result.value)
         THEN Polled(Driver(d.card, None), Ok(Some(Idle)), io2)
         ELSE Polled(Driver(d.card, Some(uid_result.value)),
                     Ok(Some(CardPresent(uid_result.value))), io2)
    ELSE IF uid_result.value = StatusWord(SwRetry[1], SwRetry[2])
    THEN Polled(Disconnected, Ok(None), io2)
    ELSE IF uid_result.value.kind = "Pcsc" /\ IsGone(uid_result.value.error)
    THEN Polled(Disconnected, Ok(None), io2)
    ELSE Polled(d, Err(uid_result.value), io2)

\* Variant of PollConnected that returns the retry word 63 00 as an error
PollConnected_RetryIsError(d, env, io0) ==
    LET io1 == io0 \o <<Io("status", env.status)>>
        io2 == io1 \o <<Io("transmit", env.transmit)>>
        uid_result == ReadUid(env.transmit) IN
    IF ~env.status.ok
    THEN IF IsGone(env.status.value)
         THEN Polled(Disconnected, Ok(None), io1)
         ELSE Polled(d, Err(Pcsc(env.status.value)), io1)
    ELSE IF ~env.status.value
    THEN Polled(Disconnected, Ok(None), io1)
    ELSE IF uid_result.ok
    THEN IF d.last_uid = Some(uid_result.value)
         THEN Polled(d, Ok(Some(Idle)), io2)
         ELSE Polled(Driver(d.card, Some(uid_result.value)),
                     Ok(Some(CardPresent(uid_result.value))), io2)
    ELSE IF uid_result.value.kind = "Pcsc" /\ IsGone(uid_result.value.error)
    THEN Polled(Disconnected, Ok(None), io2)
    ELSE Polled(d, Err(uid_result.value), io2)

\* poll() once the driver holds a card handle: status, presence, UID read and
\* the de-duplication against last_uid.
PollConnected(d, env, io0) ==
    LET io1 == io0 \o <<Io("status", env.status)>>
        io2 == io1 \o <<Io("transmit", env.transmit)>>
        uid_result == ReadUid(env.transmit) IN
    IF ~env.status.ok
    THEN IF IsGone(env.status.value)
         THEN Polled(Disconnected, Ok(None), io1)
         ELSE Polled(d, Err(Pcsc(env.status.value)), io1)
    ELSE IF ~env.status.value
    THEN Polled(Disconnected, Ok(None), io1)
    ELSE IF uid_result.ok
    THEN IF d.last_uid = Some(uid_result.value)
         THEN Polled(d, Ok(Some(Idle)), io2)
         ELSE Polled(Driver(d.card, Some(uid_result.value)),
                     Ok(Some(CardPresent(uid_result.value))), io2)
    ELSE IF uid_result.value = StatusWord(SwRetry[1], SwRetry[2])
    THEN Polled(Disconnected, Ok(None), io2)
    ELSE IF uid_result.value.kind = "Pcsc" /\ IsGone(uid_result.value.error)
    THEN Polled(Disconnected, Ok(None), io2)
    ELSE Polled(d, Err(uid_result.value), io2)

\* poll(): Result<Option<ReaderEvent>, ReaderError>
Poll(d, env) ==
    IF d.card = None
    THEN LET c == ConnectCard(d, env) IN
         IF ~c.ret.ok THEN c
         ELSE IF c.drv.card = None THEN Polled(c.drv, Ok(None), c.io)
         ELSE PollConnected(c.drv, env, c.io)
    ELSE PollConnected(d, env, <<>>)

\* Variant of NextEventIter that sleeps and polls again after an error
NextEventIter_RetriesOnError(ret) ==
    IF ~ret.ok THEN [returned |-> None, slept |-> TRUE]
    ELSE IF ret.value = None THEN [returned |-> None, slept |-> TRUE]
    ELSE [returned |-> Some(Ok(Unwrap(ret.value))), slept |-> FALSE]

\* Variant of NextEventIter that sleeps and polls again after Idle
NextEventIter_SleepsOnIdle(ret) ==
    IF ~ret.ok THEN [returned |-> Some(Err(ret.value)), slept |-> FALSE]
    ELSE IF ret.value = None \/ ret.value = Some(Idle)
    THEN [returned |-> None, slept |-> TRUE]
    ELSE [returned |-> Some(Ok(Unwrap(ret.value))), slept |-> FALSE]

\* One turn of the loop in next_event: an error or an event is returned at
\* once; on Ok(None) the thread sleeps for poll_interval and polls again.
NextEventIter(ret) ==
    IF ~ret.ok THEN [returned |-> Some(ret), slept |-> FALSE]
    ELSE IF ret.value = None THEN [returned |-> None, slept |-> TRUE]
    ELSE [returned |-> Some(Ok(Unwrap(ret.value))), slept |-> FALSE]

(* ------------------------------ run loop ------------------------------- *)

\* ProcessOutcome and RunLoopError
Action(a) == [kind |-> "Action", action |-> a]
NoEvent == [kind |-> "NoEvent"]
OutcomeShutdown == [kind |-> "Shutdown"]
RunLoopReader(e) == [kind |-> "Reader", error |-> e]
RunLoopController(e) == [kind |-> "Controller", error |-> e]

\* The scripted reader of the run loop's tests: next_event pops the front of
\* the script, and returns Shutdown once the script is used up.
ScriptedNextEvent(script) ==
    IF script = <<>> THEN [ret |-> Ok(Shutdown), rest |-> <<>>]
    ELSE [ret |-> Head(script), rest |-> Tail(script)]

\* What one process_next_event did: the controller it leaves, the player
\* calls made, the value returned, the identities handed to handle_card and
\* the results its next_event calls took from the reader.
Processed(a, cs, r, hs, tk) ==
    [active |-> a, calls |-> cs, result |-> r, handled |-> hs, taken |-> tk]

\* Variant of ProcessNextEvent that handles the card but reports NoEvent
ProcessNextEvent_DropsAction(act, lib, script, stopOk, playOk) ==
    LET got == ScriptedNextEvent(script)
        event == got.ret.value IN
    IF ~got.ret.ok
    THEN Processed(act, <<>>, Err(RunLoopReader(got.ret.value)), <<>>, <<got.ret>>)
    ELSE IF event.kind = "CardPresent"
    THEN LET out == HandleCard(act, lib, event.uid, stopOk, playOk) IN
         Processed(out.active, out.calls,
                   IF out.result.ok THEN Ok(NoEvent)
                   ELSE Err(RunLoopController(out.result.value)),
                   <<event.uid>>, <<got.ret>>)
    ELSE IF event = Idle
    THEN Processed(act, <<>>, Ok(NoEvent), <<>>, <<got.ret>>)
    ELSE Processed(act, <<>>, Ok(OutcomeShutdown), <<>>, <<got.ret>>)

\* Variant of ProcessNextEvent that pulls again after an Idle event
ProcessNextEvent_SkipsIdle(act, lib, script, stopOk, playOk) ==
    LET first == ScriptedNextEvent(script)
        got == IF first.ret = Ok(Idle) THEN ScriptedNextEvent(first.rest) ELSE first
        event == got.ret.value
        taken == IF first.ret = Ok(Idle) THEN <<first.ret, got.ret>> ELSE <<got.ret>> IN
    IF ~got.ret.ok
    THEN Processed(act, <<>>, Err(RunLoopReader(got.ret.value)), <<>>, taken)
    ELSE IF event.kind = "CardPresent"
    THEN LET out == HandleCard(act, lib, event.uid, stopOk, playOk) IN
         Processed(out.active, out.calls,
                   IF out.result.ok THEN Ok(Action(out.result.value))
                   ELSE Err(RunLoopController(out.result.value)),
                   <<event.uid>>, taken)
    ELSE IF event = Idle
    THEN Processed(act, <<>>, Ok(NoEvent), <<>>, taken)
    ELSE Processed(act, <<>>, Ok(OutcomeShutdown), <<>>, taken)

\* Variant of ProcessNextEvent that reports a controller error as NoEvent
ProcessNextEvent_SwallowsControllerError(act, lib, script, stopOk, playOk) ==
    LET got == ScriptedNextEvent(script)
        event == got.ret.value IN
    IF ~got.ret.ok
    THEN Processed(act, <<>>, Err(RunLoopReader(got.ret.value)), <<>>, <<got.ret>>)
    ELSE IF event.kind = "CardPresent"
    THEN LET out == HandleCard(act, lib, event.uid, stopOk, playOk) IN
         Processed(out.active, out.calls,
                   IF out.result.ok THEN Ok(Action(out.result.value))
                   ELSE Ok(NoEvent),
                   <<event.uid>>, <<got.ret>>)
    ELSE IF event = Idle
    THEN Processed(act, <<>>, Ok(NoEvent), <<>>, <<got.ret>>)
    ELSE Processed(act, <<>>, Ok(OutcomeShutdown), <<>>, <<got.ret>>)

\* Variant of ProcessNextEvent that reports Idle as Shutdown
ProcessNextEvent_IdleIsShutdown(act, lib, script, stopOk, playOk) ==
    LET got == ScriptedNextEvent(script)
        event == got.ret.value IN
    IF ~got.ret.ok
    THEN Processed(act, <<>>, Err(RunLoopReader(got.ret.value)), <<>>, <<got.ret>>)
    ELSE IF event.kind = "CardPresent"
    THEN LET out == HandleCard(act, lib, event.uid, stopOk, playOk) IN
         Processed(out.active, out.calls,
                   IF out.result.ok THEN Ok(Action(out.result.value))
                   ELSE Err(RunLoopController(out.result.value)),
                   <<event.uid>>, <<got.ret>>)
    ELSE IF event = Idle
    THEN Processed(act, <<>>, Ok(OutcomeShutdown), <<>>, <<got.ret>>)
    ELSE Processed(act, <<>>, Ok(OutcomeShutdown), <<>>, <<got.ret>>)

\* process_next_event(controller, reader)
ProcessNextEvent(act, lib, script, stopOk, playOk) ==
    LET got == ScriptedNextEvent(script)
        event == got.ret.value IN
    IF ~got.ret.ok
    THEN Processed(act, <<>>, Err(RunLoopReader(got.ret.value)), <<>>, <<got.ret>>)
    ELSE IF event.kind = "CardPresent"
    THEN LET out == HandleCard(act, lib, event.uid, stopOk, playOk) IN
         Processed(out.active, out.calls,
                   IF out.result.ok THEN Ok(Action(out.result.value))
                   ELSE Err(RunLoopController(out.result.value)),
                   <<event.uid>>, <<got.ret>>)
    ELSE IF event = Idle
    THEN Processed(act, <<>>, Ok(NoEvent), <<>>, <<got.ret>>)
    ELSE Processed(act, <<>>, Ok(OutcomeShutdown), <<>>, <<got.ret>>)

\* What the run loop does with the value of process_next_event: an action
\* goes to the action sink, NoEvent invokes the idle sink, and the loop goes
\* on; Shutdown returns to the caller; an error aborts the loop and is
\* returned.
Dispatched(sink, continues, returned) ==
    [sink |-> sink, continues |-> continues, returned |-> returned]
RunLoopDispatch(r) ==
    IF ~r.ok THEN Dispatched(None, FALSE, Some(Err(r.value)))
    ELSE IF r.value.kind = "Action"
    THEN Dispatched(Some([sink |-> "action", action |-> r.value.action]), TRUE, None)
    ELSE IF r.value = NoEvent
    THEN Dispatched(Some([sink |-> "idle"]), TRUE, None)
    ELSE Dispatched(None, FALSE, Some(Ok(<<>>)))

\* The results a reader can give the run loop, and the scripts of them
ReaderResults ==
    {Ok(CardPresent(c)) : c \in Cards}
        \cup {Ok(Idle), Ok(Shutdown), Err(Backend("boom"))}
Scripts ==
    {<<>>} \cup {<<r>> : r \in ReaderResults}
        \cup {<<r, Ok(CardPresent(CardUid(1)))>> : r \in ReaderResults}


(* ----------------------------- card identity -------------------------- *)

\* A string is the sequence of its chars, a char its Unicode scalar value.
\* str::len counts the bytes of the UTF-8 encoding.
Utf8Len(c) == IF c < 128 THEN 1 ELSE IF c < 2048 THEN 2 ELSE IF c < 65536 THEN 3 ELSE 4
RECURSIVE StrLen(_)
StrLen(str) == IF str = <<>> THEN 0 ELSE Utf8Len(Head(str)) + StrLen(Tail(str))

\* CardUidParseError
OddLength == [kind |-> "OddLength"]
InvalidHex(c) == [kind |-> "InvalidHex", char |-> c]

\* A call that does not return: the thread panics with msg
Panic(msg) == [ok |-> FALSE, value |-> [kind |-> "Panic", message |-> msg]]
Panicked(r) == ~r.ok /\ r.value.kind = "Panic"

\* char::to_digit(16): '0'..'9', 'a'..'f', 'A'..'F'
ToDigit16(c) ==
    IF c \in 48..57 THEN Some(c - 48)
    ELSE IF c \in 97..102 THEN Some(c - 87)
    ELSE IF c \in 65..70 THEN Some(c - 55)
    ELSE None

\* hex_value(c)
HexValue(c) ==
    IF ToDigit16(c) = None THEN Err(InvalidHex(c)) ELSE Ok(Unwrap(ToDigit16(c)))

\* The while loop of from_hex over the chars that are left
RECURSIVE FromHexLoop(_, _)
FromHexLoop(chars, bytes) ==
    IF chars = <<>> THEN Ok(bytes)
    ELSE IF Len(chars) < 2 THEN Panic("length already validated")
    ELSE LET hi == HexValue(chars[1])
             lo == HexValue(chars[2]) IN
         IF ~hi.ok THEN hi
         ELSE IF ~lo.ok THEN lo
         ELSE FromHexLoop(SubSeq(chars, 3, Len(chars)),
                          Append(bytes, (hi.value * 16 + lo.value) % 256))

\* CardUid::from_hex(hex)
FromHex(hex) ==
    IF StrLen(hex) % 2 # 0 THEN Err(OddLength) ELSE FromHexLoop(hex, <<>>)

\* Variant of HexDigit that writes upper-case digits
HexDigit_Upper(n) == IF n < 10 THEN 48 + n ELSE 55 + n

\* One digit of the format {:02x}
HexDigit(n) == IF n < 10 THEN 48 + n ELSE 87 + n

\* CardUid::to_hex_lowercase
RECURSIVE ToHexLowercase(_)
ToHexLowercase(bytes) ==
    IF bytes = <<>> THEN <<>>
    ELSE <<HexDigit(Head(bytes) \div 16), HexDigit(Head(bytes) % 16)>>
             \o ToHexLowercase(Tail(bytes))

\* char::to_ascii_lowercase, and a string lower-cased
LowerChar(c) == IF c \in 65..90 THEN c + 32 ELSE c
Lowercased(str) == [i \in 1..Len(str) |-> LowerChar(str[i])]

\* The byte sequences and the strings from_hex and to_hex_lowercase are
\* tried on: bytes on both sides of each digit boundary; the chars
\* '0' '9' 'a' 'f' 'A' 'F', the non-digits 'g' and ' ', and the two-byte
\* char U+00E9
ByteSamples == {0, 9, 10, 15, 16, 159, 171, 255}
CharSamples == {48, 57, 97, 102, 65, 70, 103, 32, 233}
SeqsUpTo(S, n) == UNION {[1..k -> S] : k \in 0..n}
ByteSeqs == SeqsUpTo(ByteSamples, MaxBytes)
Strings == SeqsUpTo(CharSamples, MaxChars)

(* ----------------------------- configuration -------------------------- *)

\* char::is_whitespace: the chars with the White_Space property
IsWhitespace(c) ==
    c \in (9..13) \cup {32, 133, 160, 5760} \cup (8192..8202)
             \cup {8232, 8233, 8239, 8287, 12288}

\* str::trim: leading and trailing whitespace removed
RECURSIVE TrimStart(_)
TrimStart(str) ==
    IF str # <<>> /\ IsWhitespace(Head(str)) THEN TrimStart(Tail(str)) ELSE str
RECURSIVE TrimEnd(_)
TrimEnd(str) ==
    IF str # <<>> /\ IsWhitespace(str[Len(str)])
    THEN TrimEnd(SubSeq(str, 1, Len(str) - 1)) ELSE str
Trim(str) == TrimEnd(TrimStart(str))

\* A path is the string it was made from. Path::is_absolute on Unix: the
\* path starts with the separator '/'.
Sep == 47
IsAbsolute(path) == path # <<>> /\ path[1] = Sep

\* Path::join / PathBuf::push: an absolute path replaces the base; otherwise
\* it is appended, after a separator when the base is not empty and does
\* not end in one.
NormalizeJoin(base, relative) ==
    IF IsAbsolute(relative) THEN relative
    ELSE IF base # <<>> /\ base[Len(base)] # Sep THEN base \o <<Sep>> \o relative
    ELSE base \o relative

\* Variant of ResolveTrackPath that leaves every entry as written
ResolveTrackPath_AsWritten(music_dir, entry) == entry

\* resolve_track_path(music_dir, entry)
ResolveTrackPath(music_dir, entry) ==
    IF IsAbsolute(entry) \/ music_dir = <<>> THEN entry
    ELSE NormalizeJoin(music_dir, entry)

\* ConfigError
CardUidError(e) == [kind |-> "CardUid", error |-> e]
DuplicateCard(u) == [kind |-> "DuplicateCard", card |-> u]

\* One entry of RawConfig.cards, and MusicBoxConfig
RawEntry(k, v) == [key |-> k, path |-> v]
MusicBoxConfig(dir, cs) == [music_dir |-> dir, cards |-> cs]

\* Variant of FromRawLoop that lets a later entry replace an earlier one
RECURSIVE FromRawLoop_LastWins(_, _, _)
FromRawLoop_LastWins(music_dir, entries, parsed) ==
    IF entries = <<>> THEN Ok(MusicBoxConfig(music_dir, parsed))
    ELSE LET e == Head(entries)
             u == FromHex(Trim(e.key))
             track_path == ResolveTrackPath(music_dir, Trim(e.path)) IN
         IF Panicked(u) THEN u
         ELSE IF ~u.ok THEN Err(CardUidError(u.value))
         ELSE FromRawLoop_LastWins(music_dir, Tail(entries),
                  [x \in DOMAIN parsed \cup {u.value} |->
                      IF x = u.value THEN track_path ELSE parsed[x]])

\* The for loop of from_raw over the entries of the cards map, in the order
\* the HashMap yields them
RECURSIVE FromRawLoop(_, _, _)
FromRawLoop(music_dir, entries, parsed) ==
    IF entries = <<>> THEN Ok(MusicBoxConfig(music_dir, parsed))
    ELSE LET e == Head(entries)
             u == FromHex(Trim(e.key))
             track_path == ResolveTrackPath(music_dir, Trim(e.path)) IN
         IF Panicked(u) THEN u
         ELSE IF ~u.ok THEN Err(CardUidError(u.value))
         ELSE IF u.value \in DOMAIN parsed THEN Err(DuplicateCard(u.value))
         ELSE FromRawLoop(music_dir, Tail(entries),
                  [x \in DOMAIN parsed \cup {u.value} |->
                      IF x = u.value THEN track_path ELSE parsed[x]])

\* MusicBoxConfig::from_raw
FromRaw(music_dir, entries) == FromRawLoop(music_dir, entries, <<>>)

\* MusicBoxConfig::into_library
IntoLibrary(config) == [u \in DOMAIN config.cards |-> Track(config.cards[u])]

\* The documents loading is tried on. Keys: "0102", " 0102", "0304", "0a0b",
\* "0A0B", "zz", "010" and the two-byte char U+00E9; track entries: "s",
\* "/s" and " a/s"; music directories: "", "/m" and "/m/".
KeySamples ==
    {<<48, 49, 48, 50>>, <<32, 48, 49, 48, 50>>, <<48, 51, 48, 52>>,
     <<48, 97, 48, 98>>, <<48, 65, 48, 66>>, <<122, 122>>, <<48, 49, 48>>, <<233>>}
EntrySamples == {<<115>>, <<Sep, 115>>, <<32, 97, Sep, 115>>}
DirSamples == {<<>>, <<Sep, 109>>, <<Sep, 109, Sep>>}
\* The cards maps of up to MaxKeys keys, each in every order of iteration
RawCards ==
    {es \in SeqsUpTo({RawEntry(k, v) : k \in KeySamples, v \in EntrySamples}, MaxKeys) :
        \A i, j \in 1..Len(es) : i # j => es[i].key # es[j].key}

\* The configuration file as add_card_to_config finds it: absent, empty,
\* not UTF-8, not TOML, a document cut short, or a document whose item
\* "cards" is absent, a table of entries in the order written ("table"),
\* an inline table of entries ("inline"), or a value of another type
\* ("other")
NoFile == [kind |-> "NoFile"]
EmptyFile == [kind |-> "Empty"]
NotUtf8 == [kind |-> "NotUtf8"]
NotToml == [kind |-> "NotToml"]
Document(dir, cardsItem, es) ==
    [kind |-> "Document", music_dir |-> dir, cards |-> cardsItem, entries |-> es]
\* The text of a document that ends inside a line, which is not TOML: inside
\* the music_dir line (at = "music_dir"), inside the [cards] line after
\* the music_dir line (at = "[cards]"), or inside the line of an entry
\* after the entries es (at = "entry")
Cut(dir, at, es) == [kind |-> "Cut", music_dir |-> dir, at |-> at, entries |-> es]

\* ConfigEditError
EditRead == [kind |-> "Read"]
EditWrite == [kind |-> "Write"]
EditParse == [kind |-> "Parse"]
MissingCards == [kind |-> "MissingCards"]
Duplicate(u) == [kind |-> "Duplicate", card |-> u]

\* What add_card_to_config returned and the file it left
Edited(r, file) == [result |-> r, file |-> file]

\* What std::fs::write(path, contents) does: File::create, which opens the
\* file with truncation, then write_all. It can fail before the file is
\* opened, write nothing, or write a part of the contents and fail: a part
\* that ends inside the music_dir line, after it, inside the [cards] line,
\* or after the first `entries` entries and the first `chars` characters
\* of the key of the next.
WriteAnswer(kind, entries, chars) ==
    [kind |-> kind, entries |-> entries, chars |-> chars]
Wrote == WriteAnswer("written", 0, 0)
CutAnswers ==
    {WriteAnswer(k, 0, 0) :
        k \in {"nothing written", "cut in music_dir", "cut after music_dir",
               "cut in [cards]"}}
        \cup {WriteAnswer("cut in cards", j, m) : j \in 0..(MaxKeys + 1), m \in 0..MaxChars}
WriteAnswers == {Wrote, WriteAnswer("not opened", 0, 0)} \cup CutAnswers

\* How far write_all got in the head of the document: 0 nothing, 1 into
\* the music_dir line, 2 to its end, 3 into the [cards] line, 4 to its end
HeadWritten(contents, write) ==
    IF write.kind = "nothing written" THEN 0
    ELSE IF contents.music_dir = None
    THEN IF write.kind \in {"cut in music_dir", "cut after music_dir"} THEN 0
         ELSE IF write.kind = "cut in [cards]" THEN 3 ELSE 4
    ELSE IF write.kind = "cut in music_dir" THEN 1
    ELSE IF write.kind = "cut after music_dir" THEN 2
    ELSE IF write.kind = "cut in [cards]" THEN 3
    ELSE 4

\* The file after write_all wrote the part of contents that `write` names
\* into the file that File::create had emptied
Written(contents, write) ==
    LET h == HeadWritten(contents, write)
        dir == contents.music_dir
        mine == contents.entries
        j == IF write.kind = "written" \/ write.entries > Len(mine) THEN Len(mine)
             ELSE write.entries
        inKey == write.kind = "cut in cards" /\ j < Len(mine) /\ write.chars > 0
    IN
    IF h = 0 THEN EmptyFile
    ELSE IF h = 1 THEN Cut(dir, "music_dir", <<>>)
    ELSE IF h = 2 THEN Document(dir, "absent", <<>>)
    ELSE IF h = 3 THEN Cut(dir, "[cards]", <<>>)
    ELSE IF inKey THEN Cut(dir, "entry", SubSeq(mine, 1, j))
    ELSE Document(dir, "table", SubSeq(mine, 1, j))

\* std::fs::write(path, contents) on a file that held `file`
FsWrite(file, contents, write) ==
    IF write.kind = "not opened" THEN file
    ELSE Written(contents, write)

\* add_card_to_config(path, uid, track); readOk and write are the answers
\* of fs::read_to_string and fs::write
AddCardToConfig(file, u, track, readOk, write) ==
    LET doc == IF file = NoFile THEN Document(Some(<<>>), "table", <<>>)
               ELSE IF file = EmptyFile THEN Document(None, "table", <<>>)
               ELSE IF file.kind = "Document" /\ file.cards = "absent"
               THEN Document(file.music_dir, "table", <<>>)
               ELSE file
        uid_hex == ToHexLowercase(u) IN
    IF file # NoFile /\ (~readOk \/ file = NotUtf8) THEN Edited(Err(EditRead), file)
    ELSE IF file.kind \in {"NotToml", "Cut"} THEN Edited(Err(EditParse), file)
    ELSE IF doc.cards # "table" THEN Edited(Err(MissingCards), file)
    ELSE IF \E i \in 1..Len(doc.entries) : doc.entries[i].key = uid_hex
    THEN Edited(Err(Duplicate(u)), file)
    ELSE LET new == Document(doc.music_dir, "table",
                             Append(doc.entries, RawEntry(uid_hex, track))) IN
         Edited(IF write = Wrote THEN Ok(<<>>) ELSE Err(EditWrite),
                FsWrite(file, new, write))

\* The files the edit is tried on, and the identities added
DocKeySamples ==
    {<<48, 49, 48, 50>>, <<32, 48, 49, 48, 50>>, <<48, 51, 48, 52>>,
     <<48, 97, 48, 98>>, <<48, 65, 48, 66>>}
DocTables ==
    {es \in SeqsUpTo({RawEntry(k, <<115>>) : k \in DocKeySamples}, 2) :
        \A i, j \in 1..Len(es) : i # j => es[i].key # es[j].key}
FileSamples ==
    {NoFile, EmptyFile, NotToml,
     Document(Some(<<Sep, 109>>), "absent", <<>>),
     NotUtf8, Cut(Some(<<Sep, 109>>), "entry", <<RawEntry(<<48, 49, 48, 50>>, <<115>>)>>),
     Document(Some(<<Sep, 109>>), "other", <<>>),
     Document(Some(<<Sep, 109>>), "inline", <<RawEntry(<<48, 49, 48, 50>>, <<115>>)>>)}
        \cup {Document(Some(<<Sep, 109>>), "table", es) : es \in DocTables}
AddUids == {CardUid(1), CardUid(2), <<10, 11>>}

\* The least and the greatest of a set of numbers
SetMin(S) == CHOOSE x \in S : \A y \in S : x <= y
SetMax(S) == CHOOSE x \in S : \A y \in S : x >= y

\* The text of a document with a [cards] table, as a sequence of
\* characters: music_dir = "<dir>", [cards], then "<key>" = "<track>" for
\* each entry, every line ended by a line feed
RECURSIVE EntryLines(_)
EntryLines(es) ==
    IF es = <<>> THEN <<>>
    ELSE <<34>> \o Head(es).key \o <<34, 32, 61, 32, 34>> \o Head(es).path
             \o <<34, 10>> \o EntryLines(Tail(es))
Text(doc) ==
    <<109, 117, 115, 105, 99, 95, 100, 105, 114, 32, 61, 32, 34>>
        \o Unwrap(doc.music_dir) \o <<34, 10>>
        \o <<91, 99, 97, 114, 100, 115, 93, 10>> \o EntryLines(doc.entries)

\* What PUT /api/config is given, and what the file holds: text. The
\* documents have the keys "0102", "0304", " 0102", "zz" and "010", the
\* track "s" and the music_dir "/m"; the text "music" is not TOML.
UpdateDoc(es) == Document(Some(<<Sep, 109>>), "table", es)
UpdateContents ==
    {<<109, 117, 115, 105, 99>>,
     Text(UpdateDoc(<<RawEntry(<<48, 49, 48, 50>>, <<115>>)>>)),
     Text(UpdateDoc(<<RawEntry(<<122, 122>>, <<115>>),
                      RawEntry(<<48, 49, 48>>, <<115>>)>>)),
     Text(UpdateDoc(<<RawEntry(<<48, 49, 48, 50>>, <<115>>),
                      RawEntry(<<32, 48, 49, 48, 50>>, <<115>>)>>)),
     Text(UpdateDoc(<<RawEntry(<<48, 51, 48, 52>>, <<115>>),
                      RawEntry(<<48, 49, 48, 50>>, <<115>>)>>))}
StartContents ==
    Text(UpdateDoc(<<RawEntry(<<48, 49, 48, 50>>, <<115>>),
                     RawEntry(<<48, 51, 48, 52>>, <<115>>)>>))

\* A file after a write() call put bytes at offset `at` of it: a file
\* that ends before the offset is filled up to it with NUL characters
PutAt(file, at, bytes) ==
    LET end == at + Len(bytes)
        n == IF Len(file) > end THEN Len(file) ELSE end IN
    [i \in 1..n |-> IF i > at /\ i <= end THEN bytes[i - at]
                    ELSE IF i <= Len(file) THEN file[i]
                    ELSE 0]

\* toml::from_str on the texts that arise here: lines that are blank, a
\* comment, a table header [name], or a pair key = "value" with a bare or
\* quoted key and a basic string without escapes; a control character or
\* any other line makes the text not TOML
IsBare(c) == c \in (48..57) \cup (65..90) \cup (97..122) \cup {45, 95}
Strip(s) ==
    LET kept == {i \in 1..Len(s) : s[i] \notin {32, 9}} IN
    IF kept = {} THEN <<>> ELSE SubSeq(s, SetMin(kept), SetMax(kept))
RECURSIVE LinesOf(_)
LinesOf(s) ==
    LET feeds == {i \in 1..Len(s) : s[i] = 10} IN
    IF s = <<>> THEN <<>>
    ELSE IF feeds = {} THEN <<s>>
    ELSE <<SubSeq(s, 1, SetMin(feeds) - 1)>>
             \o LinesOf(SubSeq(s, SetMin(feeds) + 1, Len(s)))
\* The key or the string at the start of s, and what follows it
Token(s) ==
    IF s = <<>> THEN None
    ELSE IF s[1] = 34
    THEN LET ends == {j \in 2..Len(s) : s[j] = 34} IN
         IF ends = {} THEN None
         ELSE LET j == SetMin(ends) IN
              IF \E i \in 2..(j - 1) : s[i] = 92 THEN None
              ELSE Some([chars |-> SubSeq(s, 2, j - 1), quoted |-> TRUE,
                         rest |-> SubSeq(s, j + 1, Len(s))])
    ELSE LET stops == {j \in 1..Len(s) : ~IsBare(s[j])}
             n == IF stops = {} THEN Len(s) ELSE SetMin(stops) - 1 IN
         IF n = 0 THEN None
         ELSE Some([chars |-> SubSeq(s, 1, n), quoted |-> FALSE,
                    rest |-> SubSeq(s, n + 1, Len(s))])
BadLine == [kind |-> "bad"]
ParseLine(line) ==
    LET s == Strip(IF line # <<>> /\ line[Len(line)] = 13
                   THEN SubSeq(line, 1, Len(line) - 1) ELSE line) IN
    IF \E i \in 1..Len(s) : (s[i] < 32 /\ s[i] # 9) \/ s[i] = 127 THEN BadLine
    ELSE IF s = <<>> \/ s[1] = 35 THEN [kind |-> "blank"]
    ELSE IF s[1] = 91
    THEN LET name == IF s[Len(s)] = 93 THEN Token(Strip(SubSeq(s, 2, Len(s) - 1)))
                     ELSE None IN
         IF name = None \/ Unwrap(name).rest # <<>> THEN BadLine
         ELSE [kind |-> "table", name |-> Unwrap(name).chars]
    ELSE LET k == Token(s)
             r == IF k = None THEN <<>> ELSE Strip(Unwrap(k).rest)
             v == IF r = <<>> \/ r[1] # 61 THEN None ELSE Token(Strip(Tail(r)))
             after == IF v = None THEN <<>> ELSE Strip(Unwrap(v).rest) IN
         IF v = None \/ ~Unwrap(v).quoted THEN BadLine
         ELSE IF after # <<>> /\ after[1] # 35 THEN BadLine
         ELSE [kind |-> "pair", key |-> Unwrap(k).chars, value |-> Unwrap(v).chars]
RECURSIVE ParseLines(_, _, _)
ParseLines(lines, section, doc) ==
    IF lines = <<>> THEN doc
    ELSE LET l == ParseLine(Head(lines)) IN
         IF l.kind = "bad" THEN NotToml
         ELSE IF l.kind = "blank" THEN ParseLines(Tail(lines), section, doc)
         ELSE IF l.kind = "table"
         THEN IF l.name # <<99, 97, 114, 100, 115>>
              THEN ParseLines(Tail(lines), "other", doc)
              ELSE IF doc.cards # "absent" THEN NotToml
              ELSE ParseLines(Tail(lines), "cards",
                              Document(doc.music_dir, "table", <<>>))
         ELSE IF section = "cards"
         THEN ParseLines(Tail(lines), section,
                         Document(doc.music_dir, "table",
                                  Append(doc.entries, RawEntry(l.key, l.value))))
         ELSE IF section = "other" THEN ParseLines(Tail(lines), section, doc)
         ELSE IF l.key = <<109, 117, 115, 105, 99, 95, 100, 105, 114>>
         THEN IF doc.music_dir # None THEN NotToml
              ELSE ParseLines(Tail(lines), section,
                              Document(Some(l.value), doc.cards, doc.entries))
         ELSE IF l.key = <<99, 97, 114, 100, 115>>
         THEN IF doc.cards # "absent" THEN NotToml
              ELSE ParseLines(Tail(lines), section,
                              Document(doc.music_dir, "other", <<>>))
         ELSE ParseLines(Tail(lines), section, doc)
ParseText(text) == ParseLines(LinesOf(text), "top", Document(None, "absent", <<>>))

\* The orders in which a HashMap of n entries can yield them
Orders(n) == {f \in [1..n -> 1..n] : \A i, j \in 1..n : f[i] = f[j] => i = j}
InOrder(contents) ==
    [i \in 1..(IF contents.kind = "Document" THEN Len(contents.entries) ELSE 0) |-> i]

\* MusicBoxConfig::from_reader on what the reader yields: read_to_string,
\* which fails on bytes that are not UTF-8; toml::from_str, which rejects
\* text that is not TOML, a missing music_dir, cards that are missing or
\* not a table, and a key written twice; then from_raw over the cards in
\* the order the HashMap yields them, order[i] being the place in the
\* document of the i-th entry yielded
ParseToml == [kind |-> "ParseToml"]
ConfigIo == [kind |-> "Io"]
FromReader(contents, order) ==
    IF contents.kind = "NotUtf8" THEN Err(ConfigIo)
    ELSE IF contents.kind # "Document" THEN Err(ParseToml)
    ELSE IF contents.music_dir = None \/ contents.cards \notin {"table", "inline"}
    THEN Err(ParseToml)
    ELSE IF \E i, j \in 1..Len(contents.entries) :
                i # j /\ contents.entries[i].key = contents.entries[j].key
    THEN Err(ParseToml)
    ELSE FromRaw(Unwrap(contents.music_dir),
                 [i \in 1..Len(contents.entries) |-> contents.entries[order[i]]])

\* ApiError of update_config, and its ConfigResponse
InvalidConfig(e) == [kind |-> "InvalidConfig", error |-> e]
ApiIo == [kind |-> "Io"]
ConfigResponse(contents) == [kind |-> "ConfigResponse", contents |-> contents]

(* ------------------------- the controller's mutex ---------------------- *)

\* The threads that share the Arc<Mutex<MusicBoxController>>: the run loop
\* and the handlers of the debug server, which serves requests concurrently
Threads == {"run_loop", "http1", "http2"}

\* The controller entry points each thread uses
LoopOps == {"handle_card"}
HttpOps == {"play_card", "pause", "get_status", "get_library", "update_config"}
Ops(t) == IF t = "run_loop" THEN LoopOps ELSE HttpOps

\* A thread that holds no guard, and one inside the guard's scope
Parked == [pc |-> "idle", op |-> "none", pending |-> None]
Inside(pc, o, pending) == [pc |-> pc, op |-> o, pending |-> pending]

\* Variant of CanLock that lets a thread in without waiting
CanLock_NoWait(m) == TRUE

\* Mutex::lock returns only while no other guard exists
CanLock(m) == m = None

\* `active` while handle_card is between its first player call and its last
\* assignment: the toggle-off and the lookup miss have not touched it, the
\* switch and the start have taken it.
HandleCardMid(act, lib, c) ==
    IF IsSome(act) /\ Unwrap(act).card = c THEN act
    ELSE IF c \notin DOMAIN lib THEN act
    ELSE None

\* What a handler that reads the controller sees: `active` as it is, `active`
\* as the last completed call left it, and the other threads that are in
\* the middle of a call
Saw(t, o, act, last, busy) ==
    [by |-> t, op |-> o, active |-> act, settled |-> last, busy |-> busy]
NotSeen == Saw("none", "none", None, None, {})

\* The two documents PUT /api/config is given here
DefaultLibrary ==
    [c \in Cards |-> IF c = CardUid(1) THEN Track("song1.mp3") ELSE Track("song2.mp3")]
LockLibraries == {DefaultLibrary, [c \in {CardUid(1)} |-> Track("song1.mp3")]}

\* One use of the hex codec
Coded(dir, input, out, back) == [dir |-> dir, input |-> input, out |-> out, back |-> back]

(* --------------------- telemetry and status display -------------------- *)

\* StatusSnapshot, and StatusSnapshot::default()
StatusSnapshot(la, lu, n) ==
    [last_action |-> la, last_update |-> lu, idle_events |-> n]
DefaultStatus == StatusSnapshot(None, None, 0)

\* SharedStatus::record_action(action), SystemTime::now() answering now
RecordAction(st, action, now) ==
    [st EXCEPT !.last_update = Some(now), !.last_action = Some(action)]

\* Variant of RecordIdle that also forgets the last action
RecordIdle_ForgetsAction(st, now) ==
    StatusSnapshot(None, Some(now), st.idle_events + 1)

\* SharedStatus::record_idle(), SystemTime::now() answering now. idle_events
\* is a u64; the counts reached here stay far below 2^64.
RecordIdle(st, now) ==
    [st EXCEPT !.last_update = Some(now), !.idle_events = @ + 1]

\* SharedStatus::snapshot(): a clone of the status
Snapshot(st) == st

\* The actions and the times the status is told, and the statuses a run
\* starts from: the default one, and one that has counted idle polls up to
\* two short of the display's next refresh
Times == {1, 2}
ActionSamples ==
    {Started(CardUid(1), Track("song1.mp3")),
     Stopped(CardUid(1), Track("song1.mp3")),
     Switched(CardUid(1), Track("song1.mp3"), CardUid(2), Track("song2.mp3"))}

\* The readers the run loop is given beside the status: one result each
StatusScripts ==
    {<<Ok(CardPresent(CardUid(1)))>>, <<Ok(CardPresent(CardUid(2)))>>,
     <<Ok(Idle)>>, <<Ok(Shutdown)>>, <<Err(Backend("boom"))>>}

\* The idle sink refreshes the display when idle_events % 100 == 0
IdleRefresh == 100
StartStatuses == {DefaultStatus, StatusSnapshot(None, Some(1), IdleRefresh - 1)}

\* Option<SharedStatusDisplay>: no display, or a device by what it does when
\* it is locked and updated: "ok", "error" update returns Err, "poisoned"
\* lock returns Err
Displays == {None, Some("ok"), Some("error"), Some("poisoned")}

\* What pushing a snapshot did: the snapshots handed to update, the
\* warnings logged, and whether it returned to the sink
Pushed(us, ws, ret) == [updates |-> us, warned |-> ws, returned |-> ret]
NoPush == Pushed(<<>>, <<>>, TRUE)

\* Variant of DisplayPush in which a failure of the display unwinds
DisplayPush_FailureUnwinds(display, snapshot) ==
    IF display = None THEN NoPush
    ELSE IF Unwrap(display) = "poisoned" THEN Pushed(<<>>, <<>>, FALSE)
    ELSE IF Unwrap(display) = "error" THEN Pushed(<<snapshot>>, <<>>, FALSE)
    ELSE Pushed(<<snapshot>>, <<>>, TRUE)

\* if let Some(handle) = &display { match handle.lock() { .. } }
DisplayPush(display, snapshot) ==
    IF display = None THEN NoPush
    ELSE IF Unwrap(display) = "poisoned"
    THEN Pushed(<<>>, <<"waveshare display mutex poisoned">>, TRUE)
    ELSE IF Unwrap(display) = "error"
    THEN Pushed(<<snapshot>>, <<"waveshare display update failed">>, TRUE)
    ELSE Pushed(<<snapshot>>, <<>>, TRUE)

\* The telemetry sink as the last call on it left it (op, its argument arg,
\* the status before it, the snapshot it returned, the display and the push
\* of a sink, the controller's `active` at that call), with the
\* number of record_idle calls made so far, the argument of the latest
\* record_action, and the number of calls
Telemetry(st) ==
    [op |-> "new", status |-> st, before |-> st, arg |-> None, snap |-> None,
     display |-> None, push |-> NoPush, returned |-> TRUE, found |-> None,
     idles |-> st.idle_events, latest |-> st.last_action, n |-> 0]
Told(t, o, st, arg, snap, display, push, found) ==
    [op |-> o, status |-> st, before |-> t.status, arg |-> arg, snap |-> snap,
     display |-> display, push |-> push, returned |-> push.returned,
     found |-> found,
     idles |-> IF o \in {"record_idle", "idle_sink"} THEN t.idles + 1 ELSE t.idles,
     latest |-> IF o \in {"record_action", "action_sink"} THEN arg ELSE t.latest,
     n |-> t.n + 1]

(* ----------------------------- no-op reader ---------------------------- *)

\* std::env::var("MUSICBOX_NOOP_SHUTDOWN"): the variable is not set, is set
\* to a value that is not valid Unicode, or is set to a string
EnvUnset == [kind |-> "unset"]
EnvNotUnicode == [kind |-> "not_unicode"]
EnvValue(str) == [kind |-> "value", value |-> str]
EnvVar(e) ==
    IF e.kind = "unset" THEN Err("NotPresent")
    ELSE IF e.kind = "not_unicode" THEN Err("NotUnicode")
    ELSE Ok(e.value)

\* NoopReader, and NoopReader::default()
NoopReader(next, sent) == [shutdown_next |-> next, shutdown_sent |-> sent]
NoopDefault(e) ==
    NoopReader(IF EnvVar(e).ok THEN EnvVar(e).value # <<48>> ELSE FALSE, FALSE)

\* What a call on the reader gave: the reader it left and the value returned
NoopPolled(r, ret) == [reader |-> r, ret |-> ret]

\* Variant of NoopNextEvent that does not remember that Shutdown was sent
NoopNextEvent_ForgetsSent(r) ==
    IF r.shutdown_next /\ ~r.shutdown_sent
    THEN NoopPolled(r, Ok(Shutdown))
    ELSE NoopPolled(r, Ok(Idle))

\* NoopReader::next_event
NoopNextEvent(r) ==
    IF r.shutdown_next /\ ~r.shutdown_sent
    THEN NoopPolled([r EXCEPT !.shutdown_sent = TRUE], Ok(Shutdown))
    ELSE NoopPolled(r, Ok(Idle))

\* The values the variable is given: the strings of at most two chars over
\* '0', '1' and ' ', and the two that are not strings
EnvSamples ==
    {EnvUnset, EnvNotUnicode} \cup {EnvValue(str) : str \in SeqsUpTo({48, 49, 32}, 2)}

\* The no-op reader built in the environment e, before its first call
NoopBuilt(e) == [env |-> e, reader |-> NoopDefault(e), returned |-> <<>>]

(* ------------------------------ state ---------------------------------- *)

VARIABLES
    library,     \* MusicBoxController.library
    active,      \* MusicBoxController.active : Option<ActiveTrack>
    configFile,  \* the text of the configuration file on disk
    op,          \* the entry point that ran last
    uid,         \* the card given to the last handle_card, if that ran last
    calls,       \* the player calls the last entry point made, in order
    result,      \* the value the last entry point returned
    prevActive,  \* `active` on entry to the last entry point
    lastOk,      \* the most recent player call that returned Ok, if any
    toggleRun,   \* record of the taps since construction while they are all
                 \* of one mapped card, answered by a player that did not fail
    drv,         \* PcscReader: [card, last_uid]
    poll,        \* the last poll(): the driver it started from, the backend
                 \* calls it made, its return value, what next_event did with it
    hist,        \* before the last poll(): the kind of the poll preceding it
                 \* and the identity most recently read
    taps,        \* the identity of the latest CardPresent the driver returned,
                 \* whether a poll since then left the driver Disconnected,
                 \* and both as they were before the last poll
    dedupRun,    \* the events returned for the current run of polls that read
                 \* one identity over one open channel
    loop         \* the run loop: whether it goes on and what it returned to
                 \* its caller and, when its iteration was the last entry
                 \* point to run, the reader result that took, how many it
                 \* pulled, the identities it handed to handle_card and the
                 \* sink it invoked
VARIABLES
    codec        \* the last use of the hex codec: its input, its result and
                 \* the result of the inverse applied to that
VARIABLES
    conf         \* the last use of the configuration code: the operation, its
                 \* input and its result
VARIABLES
    tele         \* SharedStatus and the last call made on it
VARIABLES
    noop         \* NoopReader, the environment it was built in and the
                 \* values its next_event calls returned, in order
VARIABLES
    box          \* driver, run loop and controller together: the handle_card
                 \* calls of the current run of polls that read one identity
                 \* over one open channel, and the handle_card call before
                 \* the latest one
VARIABLES
    seat         \* the reader's surroundings: whether a readable card has
                 \* been seated for good, which, and the polls made since
VARIABLES
    mutex,       \* Mutex<MusicBoxController>: the thread that holds the guard
    thr,         \* each thread's position in its use of the controller, the
                 \* entry point it is in and the `active` its call will leave
    seen,        \* what the last handler that read the controller saw
    settled      \* `active` as the last completed call left it

ctrlVars == <<library, active, configFile, op, uid, calls, result, prevActive,
              lastOk, toggleRun, loop>>
rdrVars == <<drv, poll, hist, dedupRun, taps>>
lockVars == <<mutex, thr, seen, settled>>
lateVars == <<noop, box, seat>>
pureVars == <<codec, conf, tele, lateVars>>
vars == <<library, active, configFile, op, uid, calls, result, prevActive,
          lastOk, toggleRun, drv, poll, hist, dedupRun, taps, loop,
          mutex, thr, seen, settled, codec, conf, tele, noop, box, seat>>

\* The last call of cs that returned Ok, or prev when cs has none
LastOk(prev, cs) ==
    LET oks == {i \in 1..Len(cs) : cs[i].ok} IN
    IF oks = {} THEN prev
    ELSE Some(cs[CHOOSE i \in oks : \A j \in oks : j <= i])

AllOk(cs) == \A i \in 1..Len(cs) : cs[i].ok

FreshRun == [live |-> TRUE, card |-> None, kinds |-> <<>>, log |-> <<>>]
DeadRun == [live |-> FALSE, card |-> None, kinds |-> <<>>, log |-> <<>>]

\* The run goes on while the same mapped card is tapped and every player call
\* succeeds; it records each tap's result kind and the calls the player saw.
RecordTap(run, lib, c, out) ==
    IF /\ run.live
       /\ run.card \in {None, Some(c)}
       /\ c \in DOMAIN lib
       /\ AllOk(out.calls)
       /\ Len(run.kinds) < MaxTaps
    THEN [live |-> TRUE, card |-> Some(c),
          kinds |-> Append(run.kinds, out.result.value.kind),
          log |-> run.log \o out.calls]
    ELSE DeadRun

\* The observation of one iteration of the run loop, and the loop before its
\* first iteration
Iteration(tk, hs, d) ==
    [event |-> Some(tk[1]), pulled |-> Len(tk), handled |-> hs, sink |-> d.sink,
     continues |-> d.continues, returned |-> d.returned]
NotRun ==
    [event |-> None, pulled |-> 0, handled |-> <<>>, sink |-> None,
     continues |-> TRUE, returned |-> None]
\* The loop as an entry point outside of it leaves it
Outside(l) == [NotRun EXCEPT !.continues = l.continues, !.returned = l.returned]

\* The observation of one poll(), and the one before any poll: PcscReader::new
Observed(pre, p, it) ==
    [pre |-> pre, io |-> p.io, ret |-> p.ret,
     returned |-> it.returned, slept |-> it.slept]
NoPoll ==
    [pre |-> Disconnected, io |-> <<>>, ret |-> Ok(None),
     returned |-> None, slept |-> FALSE]

\* What the backend told a poll, judged on the last answer it gave:
\* "read" a UID with 90 00, "retry" 63 00, "absent" status without PRESENT,
\* "removed" / "reset" from status or transmit, "nocard" connect found no
\* card, "noreader" the reader list was empty, "error" anything else.
PollKind(io) ==
    IF io = <<>> THEN "none"
    ELSE LET last == io[Len(io)]
             a == last.answer IN
         IF last.call = "list_readers"
         THEN IF a.ok THEN "noreader" ELSE "error"
         ELSE IF last.call = "connect"
         THEN IF a.value = "NoSmartcard" THEN "nocard" ELSE "error"
         ELSE IF ~a.ok
         THEN IF a.value = "RemovedCard" THEN "removed"
              ELSE IF a.value = "ResetCard" THEN "reset" ELSE "error"
         ELSE IF last.call = "status" THEN "absent"
         ELSE IF Len(a.value) < 2 THEN "error"
         ELSE LET sw == SubSeq(a.value, Len(a.value) - 1, Len(a.value)) IN
              IF sw = SwSuccess THEN "read"
              ELSE IF sw = SwRetry THEN "retry" ELSE "error"

\* The identity a "read" poll was given
ReadOf(io) ==
    LET r == io[Len(io)].answer.value IN SubSeq(r, 1, Len(r) - 2)
\* The poll opened the channel itself
Reconnected(io) == \E i \in 1..Len(io) : io[i].call = "connect"

DeadPolls == [live |-> FALSE, uid |-> None, events |-> <<>>]

\* A run starts with the first identity read over a newly opened channel, or
\* with a read of another identity over the same channel; it goes on while
\* every poll reads that identity; any other poll ends it.
RecordPoll(run, p) ==
    IF PollKind(p.io) # "read" \/ ~p.ret.ok THEN DeadPolls
    ELSE LET u == ReadOf(p.io)
             ev == Unwrap(p.ret.value) IN
         IF Reconnected(p.io) \/ (run.live /\ run.uid # Some(u))
         THEN [live |-> TRUE, uid |-> Some(u), events |-> <<ev>>]
         ELSE IF run.live /\ Len(run.events) < MaxPolls
         THEN [live |-> TRUE, uid |-> run.uid, events |-> Append(run.events, ev)]
         ELSE DeadPolls

\* The handle_card calls of a run of polls (the identities handed over, the
\* player calls made, `active` before the first of them) and the call
\* before the latest one (`active` before it, its player calls, its result)
NoCall == [before |-> None, calls |-> <<>>, result |-> Ok([kind |-> "New"])]
NoBox == [handled |-> <<>>, calls |-> <<>>, before |-> None,
          prev |-> NoCall, last |-> NoCall]
RecordBox(b, run, act, out) ==
    LET fresh == ~run.live \/ Len(run.events) = 1
        h0 == IF fresh THEN <<>> ELSE b.handled
        c0 == IF fresh THEN <<>> ELSE b.calls
        a0 == IF fresh THEN act ELSE b.before
        called == out.handled # <<>> IN
    [handled |-> IF run.live THEN h0 \o out.handled ELSE <<>>,
     calls |-> IF run.live THEN c0 \o out.calls ELSE <<>>,
     before |-> IF run.live THEN a0 ELSE None,
     prev |-> IF called THEN b.last ELSE b.prev,
     last |-> IF called
              THEN [before |-> act, calls |-> out.calls, result |-> out.result]
              ELSE b.last]

\* The answers of the backend by the first call that does not go well: each
\* call before it goes well, the calls after it are not made
BoxAnswers ==
    {env \in BackendAnswers :
        \/ /\ env.list = Ok(<<"reader0">>)
           /\ env.connect = Ok("card")
           /\ env.status = Ok(TRUE)
        \/ /\ env.transmit = Ok(CardUid(1) \o SwSuccess)
           /\ \/ env.list # Ok(<<"reader0">>) /\ env.connect = Ok("card")
                    /\ env.status = Ok(TRUE)
              \/ env.list = Ok(<<"reader0">>) /\ env.connect # Ok("card")
                    /\ env.status = Ok(TRUE)
              \/ env.list = Ok(<<"reader0">>) /\ env.connect = Ok("card")
                    /\ env.status # Ok(TRUE)}

\* No card is seated for good, and the card u is, n polls ago
NotSeated == [seated |-> FALSE, card |-> None, polls |-> 0]
SeatedFor(u, n) == [seated |-> TRUE, card |-> Some(u), polls |-> n]

\* The backend while the card u is seated and readable: every call goes
\* well and the Get-UID response is u followed by 90 00
Readable(u) ==
    [list |-> Ok(<<"reader0">>), connect |-> Ok("card"), status |-> Ok(TRUE),
     transmit |-> Ok(u \o SwSuccess)]

\* The latest CardPresent returned and the drops since, after the poll p
NoTaps == [uid |-> None, dropped |-> FALSE, prevUid |-> None, prevDropped |-> FALSE]
RecordPresent(t, p) ==
    IF p.ret.ok /\ p.ret.value # None /\ Unwrap(p.ret.value).kind = "CardPresent"
    THEN [uid |-> Some(Unwrap(p.ret.value).uid), dropped |-> FALSE,
          prevUid |-> t.uid, prevDropped |-> t.dropped]
    ELSE [uid |-> t.uid, dropped |-> t.dropped \/ p.drv.card = None,
          prevUid |-> t.uid, prevDropped |-> t.dropped]

\* MusicBoxController::new(library, player): nothing is active, the player
\* has seen no call.
InitParts ==
    /\ active = None
    /\ op = "new"
    /\ uid = None
    /\ calls = <<>>
    /\ result = Ok([kind |-> "New"])
    /\ prevActive = None
    /\ lastOk = None
    /\ toggleRun = FreshRun
    /\ drv = Disconnected
    /\ poll = NoPoll
    /\ hist = [kind |-> "none", read |-> None]
    /\ dedupRun = DeadPolls
    /\ taps = NoTaps
    /\ loop = NotRun
    /\ mutex = None
    /\ thr = [t \in Threads |-> Parked]
    /\ seen = NotSeen
    /\ settled = None
    /\ codec = Coded("none", <<>>, Ok(<<>>), Ok(<<>>))
    /\ conf = [op |-> "none"]
    /\ box = NoBox
    /\ seat = NotSeated
\* A controller built on any Library, beside a configuration file that
\* the calls made on the controller do not touch
InitController ==
    /\ library \in Libraries
    /\ configFile = StartContents
    /\ InitParts

\* SharedStatus::default() beside the controller
InitPure ==
    /\ InitController
    /\ tele = Telemetry(DefaultStatus)
Init == InitPure /\ noop = NoopBuilt(EnvUnset)

\* A card tap handed to the controller directly: handle_card(c)
HandleCardStep ==
    \E c \in Cards, stopOk \in BOOLEAN, playOk \in BOOLEAN :
        LET out == HandleCard(active, library, c, stopOk, playOk) IN
        /\ active' = out.active
        /\ calls' = out.calls
        /\ result' = out.result
        /\ op' = "handle_card"
        /\ uid' = Some(c)
        /\ prevActive' = active
        /\ lastOk' = LastOk(lastOk, out.calls)
        /\ toggleRun' = RecordTap(toggleRun, library, c, out)
        /\ loop' = Outside(loop)
        /\ UNCHANGED <<library, configFile>>
        /\ UNCHANGED <<rdrVars, lockVars, pureVars>>

\* replace_library(library) called on the controller
ReplaceLibraryStep ==
    \E l \in Libraries :
        LET new == ReplaceLibrary(active, l) IN
        /\ library' = new.library
        /\ active' = new.active
        /\ op' = "replace_library"
        /\ uid' = None
        /\ calls' = <<>>
        /\ result' = Ok([kind |-> "Unit"])
        /\ prevActive' = active
        /\ lastOk' = lastOk
        /\ toggleRun' = IF toggleRun.kinds = <<>> THEN toggleRun ELSE DeadRun
        /\ loop' = Outside(loop)
        /\ UNCHANGED configFile
        /\ UNCHANGED <<rdrVars, lockVars, pureVars>>

\* pause_playback() called on the controller
PausePlaybackStep ==
    \E stopOk \in BOOLEAN :
        LET out == PausePlayback(active, stopOk) IN
        /\ active' = out.active
        /\ calls' = out.calls
        /\ result' = out.result
        /\ op' = "pause_playback"
        /\ uid' = None
        /\ prevActive' = active
        /\ lastOk' = LastOk(lastOk, out.calls)
        /\ toggleRun' = IF toggleRun.kinds = <<>> /\ out.calls = <<>>
                        THEN toggleRun ELSE DeadRun
        /\ loop' = Outside(loop)
        /\ UNCHANGED <<library, configFile>>
        /\ UNCHANGED <<rdrVars, lockVars, pureVars>>

\* One iteration of the run loop over a reader that holds script:
\* process_next_event, then the dispatch of its value.
ProcessNextEventStep ==
    \E script \in Scripts, stopOk \in BOOLEAN, playOk \in BOOLEAN :
        LET out == ProcessNextEvent(active, library, script, stopOk, playOk)
            d == RunLoopDispatch(out.result) IN
        /\ loop.continues
        /\ active' = out.active
        /\ calls' = out.calls
        /\ result' = out.result
        /\ op' = "process_next_event"
        /\ uid' = IF out.handled = <<>> THEN None ELSE Some(out.handled[1])
        /\ prevActive' = active
        /\ lastOk' = LastOk(lastOk, out.calls)
        /\ toggleRun' = IF out.handled = <<>> /\ out.calls = <<>>
                        THEN toggleRun ELSE DeadRun
        /\ loop' = Iteration(out.taken, out.handled, d)
        /\ UNCHANGED <<library, configFile>>
        /\ UNCHANGED <<rdrVars, lockVars, pureVars>>

Next == HandleCardStep \/ ReplaceLibraryStep \/ PausePlaybackStep \/ ProcessNextEventStep

Spec == Init /\ [][Next]_vars

\* One poll() inside next_event, answered by the backend with env
PollStep ==
    \E env \in BackendAnswers :
        LET p == Poll(drv, env)
            it == NextEventIter(p.ret) IN
        /\ drv' = p.drv
        /\ poll' = Observed(drv, p, it)
        /\ hist' = [kind |-> PollKind(poll.io),
                    read |-> IF PollKind(poll.io) = "read"
                             THEN Some(ReadOf(poll.io)) ELSE hist.read]
        /\ dedupRun' = RecordPoll(dedupRun, p)
        /\ taps' = RecordPresent(taps, p)
        /\ UNCHANGED <<ctrlVars, lockVars, pureVars>>

\* The driver on its own, polled forever; the controller is left as built
\* from an empty configuration.
InitReader == Init /\ library = <<>>
NextReader == PollStep
SpecReader == InitReader /\ [][NextReader]_vars

\* A thread takes the controller's guard for one entry point
LockStep ==
    \E t \in Threads :
        \E o \in Ops(t) :
            /\ thr[t].pc = "idle"
            /\ CanLock(mutex)
            /\ mutex' = Some(t)
            /\ thr' = [thr EXCEPT ![t] = Inside("locked", o, active)]
            /\ UNCHANGED <<ctrlVars, rdrVars, seen, settled, pureVars>>

\* The call under the guard starts: handle_card and pause_playback make
\* their player calls, the readers read, replace_library replaces.
WorkStep ==
    \E t \in Threads :
        LET o == thr[t].op
            busy == {u \in Threads \ {t} : thr[u].pc = "mid"} IN
        /\ thr[t].pc = "locked"
        /\ IF o \in {"handle_card", "play_card"}
           THEN \E c \in Cards, stopOk \in BOOLEAN, playOk \in BOOLEAN :
                    /\ active' = HandleCardMid(active, library, c)
                    /\ thr' = [thr EXCEPT ![t] =
                           Inside("mid", o, HandleCard(active, library, c, stopOk, playOk).active)]
                    /\ UNCHANGED <<library, seen>>
           ELSE IF o = "pause"
           THEN \E stopOk \in BOOLEAN :
                    /\ thr' = [thr EXCEPT ![t] =
                           Inside("mid", o, PausePlayback(active, stopOk).active)]
                    /\ UNCHANGED <<active, library, seen>>
           ELSE IF o = "update_config"
           THEN \E l \in LockLibraries :
                    /\ library' = ReplaceLibrary(active, l).library
                    /\ active' = ReplaceLibrary(active, l).active
                    /\ thr' = [thr EXCEPT ![t] = Inside("done", o, None)]
                    /\ UNCHANGED seen
           ELSE /\ seen' = Saw(t, o, active, settled, busy)
                /\ thr' = [thr EXCEPT ![t] = Inside("done", o, None)]
                /\ UNCHANGED <<active, library>>
        /\ UNCHANGED <<configFile, op, uid, calls, result, prevActive, lastOk,
                       toggleRun, loop, rdrVars, mutex, settled, pureVars>>

\* handle_card or pause_playback makes its last assignment to `active`
FinishStep ==
    \E t \in Threads :
        /\ thr[t].pc = "mid"
        /\ active' = thr[t].pending
        /\ settled' = thr[t].pending
        /\ thr' = [thr EXCEPT ![t] = Inside("done", thr[t].op, None)]
        /\ UNCHANGED <<library, configFile, op, uid, calls, result, prevActive,
                       lastOk, toggleRun, loop, rdrVars, mutex, seen, pureVars>>

\* The guard goes out of scope
UnlockStep ==
    \E t \in Threads :
        /\ thr[t].pc = "done"
        /\ mutex' = None
        /\ thr' = [thr EXCEPT ![t] = Parked]
        /\ UNCHANGED <<ctrlVars, rdrVars, seen, settled, pureVars>>

\* The threads of the player, interleaved at the guard's boundaries and at
\* the middle of each mutating call
InitLock == Init /\ library = DefaultLibrary
NextLock == LockStep \/ WorkStep \/ FinishStep \/ UnlockStep
SpecLock == InitLock /\ [][NextLock]_vars

\* to_hex_lowercase of a byte sequence, and from_hex of what it wrote
EncodeStep ==
    \E b \in ByteSeqs :
        /\ codec.dir = "none"
        /\ codec' = Coded("encode", b, Ok(ToHexLowercase(b)), FromHex(ToHexLowercase(b)))
        /\ UNCHANGED <<ctrlVars, rdrVars, lockVars, conf, tele, lateVars>>

\* from_hex of a string, and to_hex_lowercase of the identity it gave
DecodeStep ==
    \E str \in Strings :
        /\ codec.dir = "none"
        /\ codec' = Coded("decode", str, FromHex(str),
                          IF FromHex(str).ok
                          THEN Ok(ToHexLowercase(FromHex(str).value))
                          ELSE FromHex(str))
        /\ UNCHANGED <<ctrlVars, rdrVars, lockVars, conf, tele, lateVars>>

\* The hex codec on its own
InitHex == Init /\ library = <<>>
NextHex == EncodeStep \/ DecodeStep
SpecHex == InitHex /\ [][NextHex]_vars

\* MusicBoxConfig::from_raw of a parsed document, and into_library of the
\* configuration it gave
LoadStep ==
    \E dir \in DirSamples, es \in RawCards :
        LET r == FromRaw(dir, es) IN
        /\ conf.op = "none"
        /\ conf' = [op |-> "load", music_dir |-> dir, entries |-> es, result |-> r,
                    library |-> IF r.ok THEN Some(IntoLibrary(r.value)) ELSE None]
        /\ UNCHANGED <<ctrlVars, rdrVars, lockVars, codec, tele, lateVars>>

\* A card of the loaded configuration, or another, tapped on a controller
\* newly built from it
TapConfiguredStep ==
    \E c \in Cards \cup {<<10, 11>>}, playOk \in BOOLEAN :
        /\ conf.op = "load"
        /\ conf.result.ok
        /\ conf' = [op |-> "tap", music_dir |-> conf.music_dir,
                    entries |-> conf.entries, result |-> conf.result,
                    library |-> conf.library, card |-> c,
                    tap |-> HandleCard(None, Unwrap(conf.library), c, TRUE, playOk)]
        /\ UNCHANGED <<ctrlVars, rdrVars, lockVars, codec, tele, lateVars>>

\* add_card_to_config on the file found on disk
AddCardStep ==
    \E file \in FileSamples, u \in AddUids, readOk \in BOOLEAN, write \in WriteAnswers :
        LET e == AddCardToConfig(file, u, <<110>>, readOk, write) IN
        /\ conf.op = "none"
        /\ conf' = [op |-> "add", before |-> file, card |-> u, track |-> <<110>>,
                    readOk |-> readOk, write |-> write,
                    result |-> e.result, after |-> e.file]
        /\ UNCHANGED <<ctrlVars, rdrVars, lockVars, codec, tele, lateVars>>

\* The configuration code on its own
InitConfig == Init /\ library = <<>>
NextConfig == LoadStep \/ TapConfiguredStep \/ AddCardStep
SpecConfig == InitConfig /\ [][NextConfig]_vars

\* record_idle() called on the status directly
RecordIdleStep ==
    \E now \in Times :
        /\ tele.n < MaxRecords
        /\ tele' = Told(tele, "record_idle", RecordIdle(tele.status, now),
                        None, None, None, NoPush, None)
        /\ UNCHANGED <<ctrlVars, rdrVars, lockVars, codec, conf, lateVars>>

\* record_action(action) called on the status directly
RecordActionStep ==
    \E action \in ActionSamples, now \in Times :
        /\ tele.n < MaxRecords
        /\ tele' = Told(tele, "record_action",
                        RecordAction(tele.status, action, now),
                        Some(action), None, None, NoPush, None)
        /\ UNCHANGED <<ctrlVars, rdrVars, lockVars, codec, conf, lateVars>>

\* snapshot() called on the status
SnapshotStep ==
    /\ tele.n < MaxRecords
    /\ tele.op # "snapshot"
    /\ tele' = Told(tele, "snapshot", tele.status, None,
                    Some(Snapshot(tele.status)), None, NoPush, None)
    /\ UNCHANGED <<ctrlVars, rdrVars, lockVars, codec, conf, lateVars>>

\* The locals of a sink of run_player_main: the action it was given (None
\* in the idle sink), its display, and the snapshot it has taken, if any
SinkLocals(action, display, snapshot) ==
    [action |-> action, display |-> display, snapshot |-> snapshot]

\* One iteration of the run loop of run_player_main over a reader that holds
\* script, up to the call of the sink: process_next_event, which takes and
\* drops the controller guard, and the dispatch of its value. display is
\* the display the sinks were given.
RunIteration(script, stopOk, playOk, display) ==
        LET out == ProcessNextEvent(active, library, script, stopOk, playOk)
            d == RunLoopDispatch(out.result) IN
        /\ loop.continues
        /\ thr["run_loop"].pc = "idle"
        /\ tele.n < MaxRecords
        /\ active' = out.active
        /\ calls' = out.calls
        /\ result' = out.result
        /\ op' = "process_next_event"
        /\ uid' = IF out.handled = <<>> THEN None ELSE Some(out.handled[1])
        /\ prevActive' = active
        /\ lastOk' = LastOk(lastOk, out.calls)
        /\ toggleRun' = IF out.handled = <<>> /\ out.calls = <<>>
                        THEN toggleRun ELSE DeadRun
        /\ loop' = Iteration(out.taken, out.handled, d)
        /\ thr' = [thr EXCEPT !["run_loop"] =
               IF d.sink = None THEN Parked
               ELSE IF Unwrap(d.sink).sink = "action"
               THEN Inside("record", "action_sink",
                           Some(SinkLocals(Some(Unwrap(d.sink).action), display, None)))
               ELSE Inside("record", "idle_sink", Some(SinkLocals(None, display, None)))]
        /\ UNCHANGED <<library, configFile>>
        /\ UNCHANGED <<rdrVars, mutex, seen, settled, pureVars>>
RunIterationStep ==
    \E script \in StatusScripts, stopOk \in BOOLEAN, playOk \in BOOLEAN,
       display \in Displays :
        RunIteration(script, stopOk, playOk, display)

\* The sink's first call: record_action(action.clone()) in the action sink,
\* record_idle() in the idle sink. Without a display the sink then returns.
SinkRecordStep ==
    \E now \in Times :
        LET me == thr["run_loop"]
            l == Unwrap(me.pending) IN
        /\ me.pc = "record"
        /\ tele' = Told(tele, me.op,
                        IF me.op = "action_sink"
                        THEN RecordAction(tele.status, Unwrap(l.action), now)
                        ELSE RecordIdle(tele.status, now),
                        l.action, None, l.display, NoPush, Some(active))
        /\ thr' = [thr EXCEPT !["run_loop"] =
               IF l.display = None THEN Parked
               ELSE Inside("snapshot", me.op, me.pending)]
        /\ UNCHANGED <<ctrlVars, rdrVars, mutex, seen, settled, codec, conf,
                       lateVars>>

\* A sink that has a display takes a snapshot of the status; the idle
\* sink returns to the loop unless the snapshot's idle_events % 100 == 0
SinkSnapshotStep ==
    LET me == thr["run_loop"]
        l == Unwrap(me.pending)
        snapshot == Snapshot(tele.status)
        pushes == me.op = "action_sink" \/ snapshot.idle_events % IdleRefresh = 0 IN
    /\ me.pc = "snapshot"
    /\ tele' = Told(tele,
                    IF me.op = "action_sink" THEN "action_snapshot" ELSE "idle_snapshot",
                    tele.status, l.action, Some(snapshot), l.display, NoPush,
                    Some(active))
    /\ thr' = [thr EXCEPT !["run_loop"] =
           IF pushes
           THEN Inside("push", me.op, Some(SinkLocals(l.action, l.display, Some(snapshot))))
           ELSE Parked]
    /\ UNCHANGED <<ctrlVars, rdrVars, mutex, seen, settled, codec, conf,
                   lateVars>>

\* The rest of the sink: the display is locked and updated with the
\* snapshot the sink took, whatever the status has become since; the sink
\* returns to the loop.
SinkPushStep ==
    LET me == thr["run_loop"]
        l == Unwrap(me.pending)
        push == DisplayPush(l.display, Unwrap(l.snapshot)) IN
    /\ me.pc = "push"
    /\ tele' = Told(tele, IF me.op = "action_sink" THEN "action_push" ELSE "idle_push",
                    tele.status, l.action, l.snapshot, l.display, push,
                    Some(active))
    /\ loop' = [loop EXCEPT !.continues = @ /\ push.returned]
    /\ thr' = [thr EXCEPT !["run_loop"] = Parked]
    /\ UNCHANGED <<library, active, configFile, op, uid, calls, result,
                   prevActive, lastOk, toggleRun>>
    /\ UNCHANGED <<rdrVars, mutex, seen, settled, codec, conf, lateVars>>

\* The telemetry sink, called directly and by the sinks of the run loop, on
\* a status that starts as new or as a run of idle polls left it
InitStatus ==
    /\ InitController
    /\ library = DefaultLibrary
    /\ tele \in {Telemetry(st) : st \in StartStatuses}
    /\ noop = NoopBuilt(EnvUnset)
NextStatus ==
    \/ RecordIdleStep \/ RecordActionStep \/ SnapshotStep
    \/ RunIterationStep \/ SinkRecordStep \/ SinkSnapshotStep \/ SinkPushStep
SpecStatus == InitStatus /\ [][NextStatus]_vars

\* next_event() called on the no-op reader
NoopNextEventStep ==
    LET p == NoopNextEvent(noop.reader) IN
    /\ Len(noop.returned) < MaxNoopCalls
    /\ noop' = [noop EXCEPT !.reader = p.reader,
                            !.returned = Append(@, p.ret)]
    /\ UNCHANGED <<ctrlVars, rdrVars, lockVars, codec, conf, tele, box, seat>>

\* The no-op reader on its own, built by NoopReader::default() in each
\* environment
InitNoop ==
    /\ InitPure
    /\ library = <<>>
    /\ noop \in {NoopBuilt(e) : e \in EnvSamples}
NextNoop == NoopNextEventStep
SpecNoop == InitNoop /\ [][NextNoop]_vars

\* One poll() inside next_event, called by process_next_event in the run
\* loop: when next_event returns, process_next_event hands its value on
BoxPollStep ==
    \E env \in BoxAnswers, stopOk \in BOOLEAN, playOk \in BOOLEAN :
        LET p == Poll(drv, env)
            it == NextEventIter(p.ret)
            run == RecordPoll(dedupRun, p)
            out == IF it.returned = None
                   THEN Processed(active, <<>>, Ok(NoEvent), <<>>, <<>>)
                   ELSE ProcessNextEvent(active, library, <<Unwrap(it.returned)>>,
                                         stopOk, playOk)
            d == RunLoopDispatch(out.result) IN
        /\ loop.continues
        /\ drv' = p.drv
        /\ poll' = Observed(drv, p, it)
        /\ hist' = [kind |-> PollKind(poll.io),
                    read |-> IF PollKind(poll.io) = "read"
                             THEN Some(ReadOf(poll.io)) ELSE hist.read]
        /\ dedupRun' = run
        /\ taps' = RecordPresent(taps, p)
        /\ box' = RecordBox(box, run, active, out)
        /\ IF it.returned = None
           THEN UNCHANGED <<active, calls, result, op, uid, prevActive, lastOk,
                            toggleRun, loop>>
           ELSE /\ active' = out.active
                /\ calls' = out.calls
                /\ result' = out.result
                /\ op' = "process_next_event"
                /\ uid' = IF out.handled = <<>> THEN None ELSE Some(out.handled[1])
                /\ prevActive' = active
                /\ lastOk' = LastOk(lastOk, out.calls)
                /\ toggleRun' = DeadRun
                /\ loop' = Iteration(out.taken, out.handled, d)
        /\ UNCHANGED <<library, configFile>>
        /\ UNCHANGED <<lockVars, codec, conf, tele, noop, seat>>

\* The PC/SC driver polled by the run loop, which hands its events to a
\* controller whose Library maps every card but the last
InitBox ==
    /\ Init
    /\ library = [c \in Cards \ {CardUid(NumCards)} |-> DefaultLibrary[c]]
NextBox == BoxPollStep
SpecBox == InitBox /\ [][NextBox]_vars

\* A readable card is put on the reader and stays there
SeatStep ==
    \E u \in Cards :
        /\ ~seat.seated
        /\ seat' = SeatedFor(u, 0)
        /\ UNCHANGED <<ctrlVars, rdrVars, lockVars, codec, conf, tele, noop, box>>

\* One poll() inside next_event: answered in any way while no card is seated
\* for good, and as a readable card answers once one is
SeatedPollStep ==
    \E env \in IF seat.seated THEN {Readable(Unwrap(seat.card))} ELSE BoxAnswers :
        LET p == Poll(drv, env)
            it == NextEventIter(p.ret) IN
        /\ seat.polls < MaxSeatedPolls
        /\ drv' = p.drv
        /\ poll' = Observed(drv, p, it)
        /\ hist' = [kind |-> PollKind(poll.io),
                    read |-> IF PollKind(poll.io) = "read"
                             THEN Some(ReadOf(poll.io)) ELSE hist.read]
        /\ dedupRun' = RecordPoll(dedupRun, p)
        /\ taps' = RecordPresent(taps, p)
        /\ seat' = IF seat.seated
                   THEN SeatedFor(Unwrap(seat.card), seat.polls + 1) ELSE seat
        /\ UNCHANGED <<ctrlVars, lockVars, codec, conf, tele, noop, box>>

\* The driver polled while a card comes to stay. next_event polls again
\* after every poll that gave no event, and its caller calls it again after
\* an event: a poll that can be made is made.
InitSeated == Init /\ library = <<>>
NextSeated == SeatStep \/ SeatedPollStep
SpecSeated == InitSeated /\ [][NextSeated]_vars /\ WF_vars(SeatedPollStep)

\* What the reader gives the run loop while the debug server is used
DebugScripts ==
    {<<Ok(CardPresent(CardUid(1)))>>, <<Ok(CardPresent(CardUid(2)))>>,
     <<Ok(Idle)>>}

\* PlayRequest.card_hex: the cards of the Library, "0a0b" and "zz"
PlayHexSamples ==
    {ToHexLowercase(c) : c \in {CardUid(1), CardUid(2)}}
        \cup {<<48, 97, 48, 98>>, <<122, 122>>}

\* ApiError::CardUid and ApiError::Controller
ApiCardUid(e) == [kind |-> "CardUid", error |-> e]
ApiController(e) == [kind |-> "Controller", error |-> e]

\* The locals of a play_card or pause call: the action it was given by the
\* controller, the response made of it, and the snapshot and the `active`
\* build_status has read; a call that has returned keeps them
HandlerLocals(action, response, snapshot, act) ==
    [action |-> action, response |-> response, snapshot |-> snapshot,
     active |-> act]
Answered(o, response) ==
    Inside("done", o, Some(HandlerLocals(None, response, None, None)))
HandlerFree == thr["http1"].pc \in {"idle", "done"}

\* POST /api/play up to the end of the guard's scope: from_hex of the
\* trimmed text, handle_card under the controller lock; an error of either
\* is returned through `?`, an action is kept
PlayCardStep ==
    \E hex \in PlayHexSamples, stopOk \in BOOLEAN, playOk \in BOOLEAN :
        LET parsed == FromHex(Trim(hex))
            out == HandleCard(active, library, parsed.value, stopOk, playOk) IN
        /\ HandlerFree
        /\ tele.n < MaxRecords
        /\ IF ~parsed.ok
           THEN /\ thr' = [thr EXCEPT !["http1"] =
                       Answered("play_card", Err(ApiCardUid(parsed.value)))]
                /\ UNCHANGED ctrlVars
           ELSE /\ active' = out.active
                /\ calls' = out.calls
                /\ result' = out.result
                /\ op' = "play_card"
                /\ uid' = Some(parsed.value)
                /\ prevActive' = active
                /\ lastOk' = LastOk(lastOk, out.calls)
                /\ toggleRun' = DeadRun
                /\ loop' = Outside(loop)
                /\ thr' = [thr EXCEPT !["http1"] =
                       IF out.result.ok
                       THEN Inside("record", "play_card",
                                Some(HandlerLocals(Some(out.result.value),
                                     Ok(CommandResponse(Some(out.result.value), "action")),
                                     None, None)))
                       ELSE Answered("play_card", Err(ApiController(out.result.value)))]
                /\ UNCHANGED <<library, configFile>>
        /\ UNCHANGED <<rdrVars, mutex, seen, settled, pureVars>>

\* POST /api/pause up to the end of the guard's scope: pause_playback under
\* the controller lock; its error is returned through `?`, its value is
\* kept
PauseRequestStep ==
    \E stopOk \in BOOLEAN :
        LET out == PausePlayback(active, stopOk)
            h == PauseHandler(active, stopOk) IN
        /\ HandlerFree
        /\ tele.n < MaxRecords
        /\ active' = h.active
        /\ calls' = h.calls
        /\ result' = out.result
        /\ op' = "pause"
        /\ uid' = None
        /\ prevActive' = active
        /\ lastOk' = LastOk(lastOk, h.calls)
        /\ toggleRun' = DeadRun
        /\ loop' = Outside(loop)
        /\ thr' = [thr EXCEPT !["http1"] =
               IF h.result.ok
               THEN Inside("snapshot", "pause",
                           Some(HandlerLocals(h.result.value.action, h.result,
                                              None, None)))
               ELSE Answered("pause", h.result)]
        /\ UNCHANGED <<library, configFile>>
        /\ UNCHANGED <<rdrVars, mutex, seen, settled, pureVars>>

\* state.status.record_action(action.clone()): in play_card before
\* build_status, in pause after it
RecordKeptStep ==
    \E now \in Times :
        LET me == thr["http1"]
            l == Unwrap(me.pending) IN
        /\ me.pc = "record"
        /\ tele' = Told(tele, "record_action",
                        RecordAction(tele.status, Unwrap(l.action), now),
                        l.action, None, None, NoPush, Some(active))
        /\ thr' = [thr EXCEPT !["http1"] =
               IF me.op = "play_card" THEN Inside("snapshot", me.op, me.pending)
               ELSE Inside("done", me.op, me.pending)]
        /\ UNCHANGED <<ctrlVars, rdrVars, mutex, seen, settled, codec, conf,
                       lateVars>>

\* build_status: state.status.snapshot()
StatusReadStep ==
    LET me == thr["http1"]
        l == Unwrap(me.pending) IN
    /\ me.pc = "snapshot"
    /\ tele' = Told(tele, "snapshot", tele.status, None,
                    Some(Snapshot(tele.status)), None, NoPush, Some(active))
    /\ thr' = [thr EXCEPT !["http1"] =
           Inside("active", me.op,
                  Some(HandlerLocals(l.action, l.response,
                                     Some(Snapshot(tele.status)), None)))]
    /\ UNCHANGED <<ctrlVars, rdrVars, mutex, seen, settled, codec, conf,
                   lateVars>>

\* build_status: guard.active() under the controller lock; play_card then
\* returns its response, pause records the action if it was given one
ActiveReadStep ==
    LET me == thr["http1"]
        l == Unwrap(me.pending)
        read == Some(HandlerLocals(l.action, l.response, l.snapshot, Some(active))) IN
    /\ me.pc = "active"
    /\ CanLock(mutex)
    /\ thr' = [thr EXCEPT !["http1"] =
           IF me.op = "pause" /\ l.action # None
           THEN Inside("record", me.op, read)
           ELSE Inside("done", me.op, read)]
    /\ UNCHANGED <<ctrlVars, rdrVars, mutex, seen, settled, pureVars>>

\* One iteration of the run loop beside the debug server, with no display
LoopIterationStep ==
    \E script \in DebugScripts, stopOk \in BOOLEAN, playOk \in BOOLEAN :
        RunIteration(script, stopOk, playOk, None)

\* The run loop's thread and the debug server's thread on one controller and
\* one status. The server's runtime has one thread and these handlers do
\* not await, so one of them runs at a time.
InitDebug == Init /\ library = DefaultLibrary
NextDebug ==
    \/ LoopIterationStep \/ SinkRecordStep
    \/ PlayCardStep \/ PauseRequestStep
    \/ RecordKeptStep \/ StatusReadStep \/ ActiveReadStep
SpecDebug == InitDebug /\ [][NextDebug]_vars

\* The locals of one update_config call: the contents, the Library made of
\* them, whether its write and its replace_library have happened, and the
\* value it returned once it has
Update(contents, lib, wrote, replaced, r) ==
    [contents |-> contents, library |-> lib, wrote |-> wrote,
     replaced |-> replaced, result |-> r]
Returned(u, r) ==
    Inside("done", "update_config",
           Some(Update(u.contents, u.library, u.wrote, u.replaced, Some(r))))
\* The locals of the call while its blocking task is in write_all: the
\* bytes of the contents written so far, which is the offset of its file
\* descriptor, and the write() calls made
Writing(u, done, n) ==
    [contents |-> u.contents, library |-> u.library, wrote |-> u.wrote,
     replaced |-> u.replaced, result |-> u.result, done |-> done, calls |-> n]
HttpThreads == {"http1", "http2"}

\* Variant of SubmitStep that writes the contents before it parses them
SubmitStep_WritesFirst(t) ==
    \E contents \in UpdateContents :
        \E order \in Orders(Len(InOrder(ParseText(contents)))) :
        LET parsed == FromReader(ParseText(contents), order) IN
        /\ thr[t].pc = "idle"
        /\ configFile' = contents
        /\ thr' = [thr EXCEPT ![t] =
               IF Panicked(parsed)
               THEN Returned(Update(contents, None, TRUE, FALSE, None), parsed)
               ELSE IF ~parsed.ok
               THEN Returned(Update(contents, None, TRUE, FALSE, None),
                             Err(InvalidConfig(parsed.value)))
               ELSE Inside("replace", "update_config",
                           Some(Update(contents, Some(IntoLibrary(parsed.value)),
                                       TRUE, FALSE, None)))]
        /\ UNCHANGED <<library, active, op, uid, calls, result, prevActive,
                       lastOk, toggleRun, loop>>
        /\ UNCHANGED <<rdrVars, mutex, seen, settled, pureVars>>

\* PUT /api/config up to its await: the contents are parsed with the
\* cards in the order the HashMap yields them, a panic of from_hex ends
\* the handler, an error is returned through `?`, the Library is made and
\* the write is handed to spawn_blocking
SubmitStep(t) ==
    \E contents \in UpdateContents :
        \E order \in Orders(Len(InOrder(ParseText(contents)))) :
        LET parsed == FromReader(ParseText(contents), order) IN
        /\ thr[t].pc = "idle"
        /\ thr' = [thr EXCEPT ![t] =
               IF Panicked(parsed)
               THEN Returned(Update(contents, None, FALSE, FALSE, None), parsed)
               ELSE IF ~parsed.ok
               THEN Returned(Update(contents, None, FALSE, FALSE, None),
                             Err(InvalidConfig(parsed.value)))
               ELSE Inside("open", "update_config",
                           Some(Update(contents, Some(IntoLibrary(parsed.value)),
                                       FALSE, FALSE, None)))]
        /\ UNCHANGED <<ctrlVars, rdrVars, mutex, seen, settled, pureVars>>

\* The blocking task, std::fs::write(path, contents), File::create: the
\* file is opened with truncation, which empties it, the descriptor's
\* offset being 0; when that fails the handler resumes with the error and
\* returns it through `?`.
OpenStep(t) ==
    \E opened \in BOOLEAN :
        LET u == Unwrap(thr[t].pending) IN
        /\ thr[t].pc = "open"
        /\ configFile' = IF opened THEN <<>> ELSE configFile
        /\ thr' = [thr EXCEPT ![t] =
               IF opened THEN Inside("write", "update_config", Some(Writing(u, 0, 0)))
               ELSE Returned(u, Err(ApiIo))]
        /\ UNCHANGED <<library, active, op, uid, calls, result, prevActive,
                       lastOk, toggleRun, loop>>
        /\ UNCHANGED <<rdrVars, mutex, seen, settled, pureVars>>

\* The blocking task, one write() call of write_all: it fails (n = 0), and
\* the handler resumes with the error and returns it through `?`, or it
\* writes n of the bytes that are left at the descriptor's offset of the
\* file as it is by now; when none are left write_all returns and the
\* handler resumes. The last of MaxWrites calls writes all that are left
\* or fails.
WriteStep(t) ==
    LET u == Unwrap(thr[t].pending)
        left == Len(u.contents) - u.done IN
    /\ thr[t].pc = "write"
    /\ \E n \in 0..left :
        /\ u.calls + 1 = MaxWrites => n \in {0, left}
        /\ configFile' =
               IF n = 0 THEN configFile
               ELSE PutAt(configFile, u.done, SubSeq(u.contents, u.done + 1, u.done + n))
        /\ thr' = [thr EXCEPT ![t] =
               IF n = 0 THEN Returned(u, Err(ApiIo))
               ELSE IF n = left
               THEN Inside("replace", "update_config",
                           Some(Update(u.contents, u.library, TRUE, FALSE, None)))
               ELSE Inside("write", "update_config",
                           Some(Writing(u, u.done + n, u.calls + 1)))]
    /\ UNCHANGED <<library, active, op, uid, calls, result, prevActive,
                   lastOk, toggleRun, loop>>
    /\ UNCHANGED <<rdrVars, mutex, seen, settled, pureVars>>

\* After the await: replace_library(library) under the controller lock, and
\* the ConfigResponse
ReplaceStep(t) ==
    LET u == Unwrap(thr[t].pending)
        new == ReplaceLibrary(active, Unwrap(u.library)) IN
    /\ thr[t].pc = "replace"
    /\ CanLock(mutex)
    /\ library' = new.library
    /\ active' = new.active
    /\ op' = "update_config"
    /\ uid' = None
    /\ calls' = <<>>
    /\ result' = Ok(ConfigResponse(u.contents))
    /\ prevActive' = active
    /\ toggleRun' = IF toggleRun.kinds = <<>> THEN toggleRun ELSE DeadRun
    /\ loop' = Outside(loop)
    /\ thr' = [thr EXCEPT ![t] =
           Returned(Update(u.contents, u.library, u.wrote, TRUE, None),
                    Ok(ConfigResponse(u.contents)))]
    /\ UNCHANGED <<configFile, lastOk>>
    /\ UNCHANGED <<rdrVars, mutex, seen, settled, pureVars>>

\* Two PUT /api/config requests served by one debug server. A handler
\* gives way at its await, so the other request's handler and the blocking
\* tasks, which run on threads of their own, run between its parse and its
\* replace_library.
InitUpdate ==
    /\ InitParts
    /\ tele = Telemetry(DefaultStatus)
    /\ noop = NoopBuilt(EnvUnset)
    /\ configFile = StartContents
    /\ library = IntoLibrary(FromReader(ParseText(StartContents),
                                        InOrder(ParseText(StartContents))).value)
NextUpdate ==
    \/ \E t \in HttpThreads : SubmitStep(t)
    \/ \E t \in HttpThreads : OpenStep(t)
    \/ \E t \in HttpThreads : WriteStep(t)
    \/ \E t \in HttpThreads : ReplaceStep(t)
SpecUpdate == InitUpdate /\ [][NextUpdate]_vars

(* ------------------- properties of handle_card ------------------------- *)

\* The last entry point was handle_card, in one of its four cases, judged on
\* the state it was entered in (the library is not changed by handle_card)
TapRan == op = "handle_card"
Tapped == Unwrap(uid)
Prev == Unwrap(prevActive)
TappedTrack == library[Tapped]
IsToggleOff == TapRan /\ IsSome(prevActive) /\ Prev.card = Tapped
IsMiss ==
    /\ TapRan
    /\ ~(IsSome(prevActive) /\ Prev.card = Tapped)
    /\ Tapped \notin DOMAIN library
IsSwitch ==
    /\ TapRan
    /\ IsSome(prevActive) /\ Prev.card # Tapped
    /\ Tapped \in DOMAIN library
IsStart == TapRan /\ prevActive = None /\ Tapped \in DOMAIN library
CallOps == [i \in 1..Len(calls) |-> calls[i].op]

\* C1: a tap of the active card (toggle-off) makes exactly one stop() call
\* and no play() call; when that stop() succeeds, active becomes None and
\* the tap returns Stopped quoting the card and track that were active.
C1_ToggleOffStops ==
    IsToggleOff =>
        /\ CallOps = <<"stop">>
        /\ calls[1].ok =>
              /\ active = None
              /\ result = Ok(Stopped(Prev.card, Prev.track))

C1_Witness ==
    /\ IsToggleOff
    /\ calls = <<StopCall(TRUE)>>
    /\ active = None
    /\ result.ok /\ result.value.kind = "Stopped"

\* C2: a tap of the active card whose stop() fails returns the audio error
\* and leaves the active state exactly as it was on entry.
C2_ToggleOffStopFails ==
    (IsToggleOff /\ calls # <<>> /\ ~calls[1].ok) =>
        /\ result = Err(Audio)
        /\ active = prevActive
        /\ active = Some(ActiveTrack(Tapped, Prev.track))

C2_Witness ==
    /\ IsToggleOff
    /\ calls = <<StopCall(FALSE)>>
    /\ result = Err(Audio)
    /\ IsSome(active)

\* C3: a tap of a card that is neither active nor in the Library returns
\* TrackNotFound, makes no player call and leaves the active state unchanged,
\* whether nothing or another card was active.
C3_LookupMissNoEffect ==
    IsMiss =>
        /\ result = Err(TrackNotFound)
        /\ calls = <<>>
        /\ active = prevActive

C3_Witness ==
    /\ IsMiss
    /\ IsSome(prevActive)
    /\ active = prevActive
    /\ result = Err(TrackNotFound)

\* C4: a tap of a mapped card while another card is active (switch) calls
\* stop() first and play(new track) second and nothing else (play is reached
\* only when stop succeeded); when both succeed it returns Switched from the
\* previous pair to the new one, and active is the new pair only if both
\* calls succeeded.
C4_SwitchStopThenPlay ==
    IsSwitch =>
        /\ calls # <<>>
        /\ calls[1].op = "stop"
        /\ calls[1].ok => /\ Len(calls) = 2
                          /\ calls[2].op = "play"
                          /\ calls[2].track = Some(TappedTrack)
        /\ ~calls[1].ok => Len(calls) = 1
        /\ AllOk(calls) =>
              /\ result = Ok(Switched(Prev.card, Prev.track, Tapped, TappedTrack))
              /\ active = Some(ActiveTrack(Tapped, TappedTrack))
        /\ active = Some(ActiveTrack(Tapped, TappedTrack)) =>
              calls = <<StopCall(TRUE), PlayCall(TappedTrack, TRUE)>>

C4_Witness ==
    /\ IsSwitch
    /\ calls = <<StopCall(TRUE), PlayCall(TappedTrack, TRUE)>>
    /\ result.ok /\ result.value.kind = "Switched"
    /\ active = Some(ActiveTrack(Tapped, TappedTrack))

\* C5: when stop() or play() fails during a switch the audio error is
\* returned, active is not the new pair, and active names a track only if a
\* play() of that track succeeded (in this call, or earlier for the pair
\* that was active on entry).
C5_SwitchFailure ==
    (IsSwitch /\ ~AllOk(calls)) =>
        /\ result = Err(Audio)
        /\ active # Some(ActiveTrack(Tapped, TappedTrack))
        /\ IsSome(active) =>
              \/ active = prevActive
              \/ \E i \in 1..Len(calls) : calls[i] = PlayCall(Unwrap(active).track, TRUE)

C5_Witness ==
    /\ IsSwitch
    /\ calls = <<StopCall(TRUE), PlayCall(TappedTrack, FALSE)>>
    /\ result = Err(Audio)

\* C6: a tap of a mapped card while nothing is active (start) makes exactly
\* one play(track) call and no stop(); on success active is the new pair and
\* Started{card, track} is returned; on failure the error is returned and
\* active stays None.
C6_StartPlays ==
    IsStart =>
        /\ Len(calls) = 1
        /\ calls[1].op = "play" /\ calls[1].track = Some(TappedTrack)
        /\ calls[1].ok =>
              /\ active = Some(ActiveTrack(Tapped, TappedTrack))
              /\ result = Ok(Started(Tapped, TappedTrack))
        /\ ~calls[1].ok =>
              /\ active = None
              /\ result = Err(Audio)

C6_Witness ==
    /\ IsStart
    /\ calls = <<PlayCall(TappedTrack, TRUE)>>
    /\ result = Ok(Started(Tapped, TappedTrack))
    /\ IsSome(active)

\* C7: whenever a pair (c, t) is active, the most recent player call that
\* succeeded is play(t): active is set only after a successful play and no
\* successful stop() has followed it.
C7_ActiveOnlyAfterPlay ==
    IsSome(active) => lastOk = Some(PlayCall(Unwrap(active).track, TRUE))

\* an active pair that survived a failed stop() and a lookup miss
C7_Witness ==
    /\ IsSome(active)
    /\ IsMiss
    /\ lastOk = Some(PlayCall(Unwrap(active).track, TRUE))

\* C8: whenever a tap takes active from Some(pair) to None, that tap called
\* stop() and stop() returned success.
C8_ClearedOnlyAfterStop ==
    (TapRan /\ IsSome(prevActive) /\ active = None) =>
        \E i \in 1..Len(calls) : calls[i] = StopCall(TRUE)

\* C9: from a fresh controller, with a player that does not fail, the k-th
\* consecutive tap of one mapped card returns Started for odd k and Stopped
\* for even k, and the player's log is play(track), stop(), play(track), ...
\* with one call per tap.
C9_ToggleAlternation ==
    (toggleRun.live /\ toggleRun.kinds # <<>>) =>
        LET n == Len(toggleRun.kinds)
            t == library[Unwrap(toggleRun.card)] IN
        /\ Len(toggleRun.log) = n
        /\ \A k \in 1..n :
              /\ toggleRun.kinds[k] = IF k % 2 = 1 THEN "Started" ELSE "Stopped"
              /\ toggleRun.log[k] = IF k % 2 = 1 THEN PlayCall(t, TRUE) ELSE StopCall(TRUE)

C9_Witness ==
    /\ toggleRun.live
    /\ Len(toggleRun.kinds) = MaxTaps
    /\ Len(toggleRun.log) = MaxTaps

(* ----------------- properties of library replacement ------------------- *)

\* C10: replacing the Library leaves the active pair as it was and makes no
\* player call, also when the active card is missing from the new Library;
\* the active pair changes only in a tap (a handle_card call, made directly
\* or by the run loop) or a pause.
C10_ReplaceKeepsActive ==
    /\ op = "replace_library" => (active = prevActive /\ calls = <<>>)
    /\ (op \notin {"handle_card", "pause_playback"} /\ loop.handled = <<>>) =>
           active = prevActive

C10_Witness ==
    /\ op = "replace_library"
    /\ result.ok
    /\ IsSome(active)
    /\ Unwrap(active).card \notin DOMAIN library

(* ------------------------ properties of pause -------------------------- *)

\* The last controller call was the pause_playback of POST /api/pause, and
\* the response its handler makes
PauseRan == op = "pause" /\ thr["http1"].op = "pause"
PauseResponse == Unwrap(thr["http1"].pending).response

\* C11: a pause with an active pair makes the single player call stop() and,
\* when it succeeds, clears the active state and reports Stopped for the pair
\* that was active; a pause with nothing active makes no player call, leaves
\* active None and answers Ok with the message that nothing was playing.
C11_Pause ==
    PauseRan =>
        /\ IsSome(prevActive) =>
              /\ CallOps = <<"stop">>
              /\ calls[1].ok =>
                    /\ active = None
                    /\ result = Ok(Some(Stopped(Prev.card, Prev.track)))
                    /\ PauseResponse.ok
                    /\ PauseResponse.value.action = Some(Stopped(Prev.card, Prev.track))
        /\ prevActive = None =>
              /\ calls = <<>>
              /\ active = None
              /\ PauseResponse = Ok(CommandResponse(None, NothingToPause))

C11_Witness ==
    /\ PauseRan
    /\ thr["http1"].pc = "done"
    /\ IsSome(prevActive)
    /\ calls = <<StopCall(TRUE)>>
    /\ active = None
    /\ PauseResponse.ok
    /\ tele.status.last_action = Some(Stopped(Prev.card, Prev.track))

---------------------------------------------------------------------------
\* Properties of the polling driver, stated on the last poll

Kind == PollKind(poll.io)
CardGone == {"absent", "removed", "reset"}
NoSignal == [ret |-> Ok(None), returned |-> None, slept |-> TRUE]
Signal == [ret |-> poll.ret, returned |-> poll.returned, slept |-> poll.slept]

\* C12: while one identity keeps being read over one open channel, the first
\* read is returned as CardPresent with that identity and every later read
\* as Idle.
C12_DedupRun ==
    dedupRun.live =>
        /\ dedupRun.events[1] = CardPresent(Unwrap(dedupRun.uid))
        /\ \A k \in 2..Len(dedupRun.events) : dedupRun.events[k] = Idle

C12_Witness ==
    /\ dedupRun.live
    /\ Len(dedupRun.events) = MaxPolls
    /\ poll.returned = Some(Ok(Idle))

\* The last poll read identity u and next_event returned CardPresent for it
Presented(u) ==
    /\ poll.ret = Ok(Some(CardPresent(u)))
    /\ poll.returned = Some(Ok(CardPresent(u)))
    /\ drv.last_uid = Some(u)

\* C13: once a card has been read, a poll that finds it gone returns no
\* event and no error and leaves the driver disconnected; the first read
\* after such a poll is returned as CardPresent, also when the identity is
\* the one read before the removal.
C13_RemovalRecovery ==
    /\ (hist.read # None /\ Kind \in CardGone \cup {"nocard"}) =>
           Signal = NoSignal /\ drv = Disconnected
    /\ (hist.read # None /\ hist.kind \in CardGone \cup {"nocard"} /\ Kind = "read") =>
           Presented(ReadOf(poll.io))

C13_Witness ==
    /\ hist.kind = "removed"
    /\ Kind = "read"
    /\ hist.read = Some(ReadOf(poll.io))
    /\ Presented(ReadOf(poll.io))

\* C14 as stated: a disconnected driver that finds no reader, or no card in
\* the reader, stays disconnected and returns no error.
C14_NoErrorWhileDisconnected ==
    (poll.pre.card = None /\ Kind \in {"noreader", "nocard"}) =>
        Signal = NoSignal /\ drv.card = None

\* C14: a disconnected driver that finds no card in the reader stays
\* disconnected, returns no error and sleeps; one that finds no reader at
\* all stays disconnected and returns the Backend error "no PC/SC readers
\* available" to the caller on that poll.
C14_NoCardSilentNoReaderError ==
    /\ (poll.pre.card = None /\ Kind = "nocard") =>
           Signal = NoSignal /\ drv = Disconnected
    /\ (poll.pre.card = None /\ Kind = "noreader") =>
           /\ poll.ret = Err(Backend("no PC/SC readers available"))
           /\ poll.returned = Some(poll.ret)
           /\ ~poll.slept
           /\ drv = poll.pre

C14_Witness ==
    /\ poll.pre.card = None
    /\ Kind = "noreader"
    /\ hist.kind = "nocard"
    /\ poll.returned = Some(Err(Backend("no PC/SC readers available")))

\* C15: a poll of a connected driver whose status query shows no card, or
\* whose status query or UID exchange reports removal or reset, leaves the
\* driver disconnected with no last-seen identity and returns neither an
\* event nor an error; next_event sleeps and polls again.
C15_GoneDisconnects ==
    Kind \in CardGone => Signal = NoSignal /\ drv = Disconnected

C15_Witness ==
    /\ Kind \in CardGone
    /\ poll.pre.card # None
    /\ poll.pre.last_uid # None
    /\ drv = Disconnected
    /\ poll.slept

\* C16: a poll whose UID response ends in 63 00 leaves the driver
\* disconnected with no last-seen identity and returns neither an event nor
\* an error; next_event sleeps and polls again.
C16_RetryDisconnects ==
    Kind = "retry" => Signal = NoSignal /\ drv = Disconnected

C16_Witness ==
    /\ Kind = "retry"
    /\ poll.pre.last_uid # None
    /\ drv = Disconnected
    /\ poll.slept

\* The error of a poll whose last backend answer was a failure that is not
\* absorbed
ErrorOf(io) ==
    LET last == io[Len(io)]
        a == last.answer IN
    IF ~a.ok THEN Pcsc(a.value)
    ELSE IF Len(a.value) < 2 THEN Backend("card UID response too short")
    ELSE StatusWord(a.value[Len(a.value) - 1], a.value[Len(a.value)])

\* C17: a poll that meets any other failure (reader list, connect other
\* than no card, status or transmit other than removed/reset, a response
\* shorter than two bytes, a status word other than 90 00 and 63 00) returns
\* that error, and next_event returns it on that poll without sleeping.
C17_OtherFailuresReturned ==
    (Kind = "error") =>
        /\ poll.ret = Err(ErrorOf(poll.io))
        /\ poll.returned = Some(poll.ret)
        /\ ~poll.slept

C17_Witness ==
    /\ Kind = "error"
    /\ poll.io[Len(poll.io)].call = "transmit"
    /\ poll.ret = Err(StatusWord(106, 130))
    /\ poll.returned = Some(poll.ret)

\* C18 as stated: after the channel was dropped on the retry word with no
\* removal detected, the first read of the same identity over the re-opened
\* channel is returned as Idle.
C18_IdleAfterReconnect ==
    (/\ hist.kind = "retry"
     /\ Kind = "read"
     /\ Reconnected(poll.io)
     /\ hist.read = Some(ReadOf(poll.io))) => poll.ret = Ok(Some(Idle))

\* C18: a read over a channel the poll has just opened is returned as
\* CardPresent, whatever was read before the channel was dropped; Idle is
\* returned only for a read over a channel that was already open and whose
\* last read gave the same identity.
C18_PresentAfterReconnect ==
    /\ (Kind = "read" /\ Reconnected(poll.io)) => Presented(ReadOf(poll.io))
    /\ (poll.ret = Ok(Some(Idle))) =>
           /\ Kind = "read"
           /\ ~Reconnected(poll.io)
           /\ poll.pre.last_uid = Some(ReadOf(poll.io))

C18_Witness ==
    /\ hist.kind = "retry"
    /\ Kind = "read"
    /\ Reconnected(poll.io)
    /\ hist.read = Some(ReadOf(poll.io))
    /\ Presented(ReadOf(poll.io))

(* ---------------------- properties of the run loop --------------------- *)

\* The last entry point was an iteration of the run loop that took ev
LoopRan == op = "process_next_event"
Took(ev) == LoopRan /\ loop.event = Some(Ok(ev))

\* C19: an iteration that takes CardPresent{uid} pulls one event, calls
\* handle_card once, with uid, and hands on what that call returned: the
\* controller and player calls are handle_card's, its action reaches the
\* action sink unchanged, its error is returned as RunLoopError::Controller.
C19_CardPresentForwarded ==
    \A c \in Cards :
        Took(CardPresent(c)) =>
            /\ loop.pulled = 1
            /\ loop.handled = <<c>>
            /\ \E stopOk \in BOOLEAN, playOk \in BOOLEAN :
                  LET hc == HandleCard(prevActive, library, c, stopOk, playOk) IN
                  /\ active = hc.active
                  /\ calls = hc.calls
                  /\ IF hc.result.ok
                     THEN /\ result = Ok(Action(hc.result.value))
                          /\ loop.sink = Some([sink |-> "action",
                                               action |-> hc.result.value])
                          /\ loop.continues
                     ELSE /\ result = Err(RunLoopController(hc.result.value))
                          /\ loop.sink = None

\* a switch that went through the run loop
C19_Witness ==
    /\ Took(CardPresent(CardUid(2)))
    /\ loop.handled = <<CardUid(2)>>
    /\ IsSome(prevActive)
    /\ result.ok
    /\ result.value.kind = "Action"
    /\ result.value.action.kind = "Switched"
    /\ loop.sink = Some([sink |-> "action", action |-> result.value.action])

\* C20: an iteration that takes Idle or Shutdown pulls one event, does not
\* call the controller, makes no player call and leaves active as it was;
\* Idle gives NoEvent, invokes the idle sink and the loop goes on; Shutdown
\* gives Shutdown, invokes no sink and the loop returns to its caller.
C20_IdleShutdownFrame ==
    /\ (Took(Idle) \/ Took(Shutdown)) =>
           /\ loop.pulled = 1
           /\ loop.handled = <<>>
           /\ calls = <<>>
           /\ active = prevActive
    /\ Took(Idle) =>
           /\ result = Ok(NoEvent)
           /\ loop.sink = Some([sink |-> "idle"])
           /\ loop.continues
           /\ loop.returned = None
    /\ Took(Shutdown) =>
           /\ result = Ok(OutcomeShutdown)
           /\ loop.sink = None
           /\ ~loop.continues
           /\ loop.returned = Some(Ok(<<>>))

\* Shutdown taken while a track is playing
C20_Witness ==
    /\ Took(Shutdown)
    /\ loop.pulled = 1
    /\ IsSome(active)
    /\ ~loop.continues

\* The last iteration took a failure of the reader
TookError == LoopRan /\ loop.event # None /\ ~Unwrap(loop.event).ok

\* C21: an iteration whose reader fails does not call handle_card, leaves
\* the controller as it was and returns RunLoopError::Reader with the
\* reader's error; an iteration whose handle_card fails (TrackNotFound for a
\* card that is not mapped, Audio for a failed player call) returns
\* RunLoopError::Controller with that error; either error ends the loop and
\* is what the loop returns to its caller.
C21_ErrorsAbortLoop ==
    /\ TookError =>
           /\ result = Err(RunLoopReader(Unwrap(loop.event).value))
           /\ loop.handled = <<>>
           /\ calls = <<>>
           /\ active = prevActive
    /\ \A c \in Cards :
           Took(CardPresent(c)) =>
               /\ (c \notin DOMAIN library
                       /\ ~(IsSome(prevActive) /\ Unwrap(prevActive).card = c)) =>
                      result = Err(RunLoopController(TrackNotFound))
               /\ (\E i \in 1..Len(calls) : ~calls[i].ok) =>
                      result = Err(RunLoopController(Audio))
    /\ (LoopRan /\ ~result.ok) =>
           /\ ~loop.continues
           /\ loop.sink = None
           /\ loop.returned = Some(Err(result.value))

\* a tap of an unmapped card that ended the loop while a track was playing
C21_Witness ==
    /\ \E c \in Cards : Took(CardPresent(c)) /\ c \notin DOMAIN library
    /\ IsSome(active)
    /\ result = Err(RunLoopController(TrackNotFound))
    /\ loop.returned = Some(Err(RunLoopController(TrackNotFound)))

\* C22: the loop has returned successfully only when the last event it took
\* was Shutdown; after an action or an Idle event it goes on; and once it
\* has returned it pulls no further event from the reader.
C22_UntilShutdown ==
    /\ [](/\ (LoopRan /\ loop.returned = Some(Ok(<<>>))) => Took(Shutdown)
          /\ (LoopRan /\ result.ok /\ ~Took(Shutdown)) =>
                 loop.continues /\ loop.returned = None
          /\ loop.continues => loop.returned = None)
    /\ [][/\ loop'.returned # loop.returned => (loop.continues /\ op' = "process_next_event")
          /\ ~loop.continues => (loop'.pulled = 0 /\ loop'.returned = loop.returned)]_vars

\* the controller is used through another entry point after the loop has
\* returned on Shutdown
C22_Witness ==
    /\ loop.returned = Some(Ok(<<>>))
    /\ ~loop.continues
    /\ op = "handle_card"
    /\ IsSome(active)

(* ------------------- properties of the controller's mutex --------------- *)

InGuard == {t \in Threads : thr[t].pc # "idle"}
InCall == {t \in Threads : thr[t].pc = "mid" /\ thr[t].op \in {"handle_card", "play_card", "pause"}}

\* C23: every controller entry point runs while its thread holds the
\* controller's mutex, so at most one thread is inside an entry point, at
\* most one handle_card/pause call is in flight, and a handler that reads
\* the controller sees `active` as the last completed call left it, with no
\* other call in its middle.
C23_MutualExclusion ==
    /\ \A t \in InGuard : mutex = Some(t)
    /\ Cardinality(InGuard) <= 1
    /\ Cardinality(InCall) <= 1
    /\ seen.busy = {}
    /\ seen.active = seen.settled

\* the run loop is in the middle of a switch, having taken `active`, after a
\* status request saw the track that was playing
C23_Witness ==
    /\ thr["run_loop"].pc = "mid"
    /\ mutex = Some("run_loop")
    /\ active = None
    /\ IsSome(settled)
    /\ seen.by = "http1"
    /\ seen.op = "get_status"
    /\ IsSome(seen.active)

(* --------------------- properties of the hex codec ---------------------- *)

IsHexDigit(c) == c \in (48..57) \cup (97..102) \cup (65..70)
AllHexDigits(str) == \A i \in 1..Len(str) : IsHexDigit(str[i])

\* C27: from_hex of to_hex_lowercase(b) succeeds and gives b, for every byte
\* sequence b; to_hex_lowercase of from_hex(s) is s lower-cased, two chars
\* per byte, for every even-length string s of hex digits.
C27_HexRoundTrip ==
    /\ codec.dir = "encode" =>
           /\ codec.back = Ok(codec.input)
           /\ Len(codec.out.value) = 2 * Len(codec.input)
    /\ (codec.dir = "decode" /\ AllHexDigits(codec.input) /\ Len(codec.input) % 2 = 0) =>
           /\ codec.out.ok
           /\ 2 * Len(codec.out.value) = Len(codec.input)
           /\ codec.back = Ok(Lowercased(codec.input))

\* "Af" decodes to the byte 0xaf and is written back as "af"
C27_Witness ==
    /\ codec.dir = "decode"
    /\ codec.input = <<65, 102>>
    /\ codec.out = Ok(<<175>>)
    /\ codec.back = Ok(<<97, 102>>)

\* The first char of str that is no hex digit
FirstNonHex(str) ==
    str[CHOOSE i \in 1..Len(str) : ~IsHexDigit(str[i]) /\ \A j \in 1..(i - 1) : IsHexDigit(str[j])]

\* C28: from_hex of a string of odd length fails with OddLength; from_hex of
\* a string of even length that holds a char that is no hex digit fails with
\* InvalidHex naming the first such char; for every invalid input from_hex
\* returns one of these two errors and does not abort.
C28_DecodeFailures ==
    codec.dir = "decode" =>
        /\ StrLen(codec.input) % 2 # 0 => codec.out = Err(OddLength)
        /\ (StrLen(codec.input) % 2 = 0 /\ ~AllHexDigits(codec.input)) =>
               codec.out = Err(InvalidHex(FirstNonHex(codec.input)))
        /\ ~Panicked(codec.out)

(* ------------------ properties of the configuration code ---------------- *)

Loaded == conf.op = "load"
\* The identity a key denotes, when it denotes one
Denotes(k) == FromHex(Trim(k))
Keys == {conf.entries[i].key : i \in 1..Len(conf.entries)}
\* The identities that two keys of the loaded document denote
Clashes ==
    {Denotes(k).value : k \in {x \in Keys : Denotes(x).ok /\
         \E y \in Keys : y # x /\ Denotes(y) = Denotes(x)}}
EveryKeyDecodes == \A k \in Keys : Denotes(k).ok

\* C24 as stated: when two keys denote the same identity once trimmed,
\* loading fails with DuplicateCard for that identity and gives no Library;
\* otherwise the Library has exactly one entry per key.
C24_DuplicatesRejected ==
    Loaded =>
        IF Clashes # {}
        THEN /\ \E u \in Clashes : conf.result = Err(DuplicateCard(u))
             /\ conf.library = None
        ELSE /\ conf.result.ok
             /\ IsSome(conf.library)
             /\ DOMAIN Unwrap(conf.library) = {Denotes(k).value : k \in Keys}
             /\ Cardinality(DOMAIN Unwrap(conf.library)) = Cardinality(Keys)

\* C24: when every key, once trimmed, decodes: if two keys denote the same
\* identity, loading fails with DuplicateCard for such an identity and gives
\* no Library, otherwise the Library has exactly one entry per key. When
\* some key does not decode, loading gives no Library, whatever else the
\* document holds.
C24_DuplicatesRejectedAmongValid ==
    Loaded =>
        /\ (EveryKeyDecodes /\ Clashes # {}) =>
               /\ \E u \in Clashes : conf.result = Err(DuplicateCard(u))
               /\ conf.library = None
        /\ (EveryKeyDecodes /\ Clashes = {}) =>
               /\ conf.result.ok
               /\ IsSome(conf.library)
               /\ DOMAIN Unwrap(conf.library) = {Denotes(k).value : k \in Keys}
               /\ Cardinality(DOMAIN Unwrap(conf.library)) = Cardinality(Keys)
        /\ ~EveryKeyDecodes => (~conf.result.ok /\ conf.library = None)

\* "0102" and " 0102" in one document
C24_Witness ==
    /\ Loaded
    /\ Keys = {<<48, 49, 48, 50>>, <<32, 48, 49, 48, 50>>}
    /\ conf.result = Err(DuplicateCard(CardUid(1)))
    /\ conf.library = None

Added == conf.op = "add"
\* The entries of a file, none when it holds no table of cards
EntriesOf(file) == IF file.kind = "Document" THEN file.entries ELSE <<>>
\* The entries of the file that denote identity u, as the loader decodes keys
Mapping(file, u) ==
    {i \in 1..Len(EntriesOf(file)) : Denotes(EntriesOf(file)[i].key) = Ok(u)}
\* The edit can go through: the file is absent, or is read and is empty or
\* a document whose cards item is a table or absent, and the write succeeds
Editable ==
    /\ \/ conf.before = NoFile
       \/ conf.readOk /\ conf.before = EmptyFile
       \/ /\ conf.readOk
          /\ conf.before.kind = "Document"
          /\ conf.before.cards \in {"table", "absent"}
    /\ conf.write = Wrote

\* C25: add_card_to_config answers Duplicate and leaves the file as it was
\* whenever some key of the existing document denotes the identity as the
\* loader decodes it; otherwise it appends one entry for the identity and
\* keeps every existing entry, in a file that is created when absent.
C25_AddRejectsMapped ==
    (Added /\ Editable) =>
        IF Mapping(conf.before, conf.card) # {}
        THEN /\ conf.result = Err(Duplicate(conf.card))
             /\ conf.after = conf.before
        ELSE /\ conf.result.ok
             /\ conf.after.kind = "Document"
             /\ Len(conf.after.entries) = Len(EntriesOf(conf.before)) + 1
             /\ SubSeq(conf.after.entries, 1, Len(EntriesOf(conf.before))) = EntriesOf(conf.before)
             /\ Cardinality(Mapping(conf.after, conf.card)) = 1

Configured == conf.op \in {"load", "tap"} /\ conf.result.ok
\* The path the Library is to hold for entry e of the loaded document
Expected(e) ==
    IF IsAbsolute(Trim(e.path)) THEN Trim(e.path)
    ELSE NormalizeJoin(conf.music_dir, Trim(e.path))

\* C26: the Library built from a configuration maps each card to its track
\* entry joined against the music directory when the entry is relative, and
\* to the entry itself when it is absolute; tapping a mapped card on the
\* new controller makes the single call play() with that path and, when the
\* player accepts it, answers Started for the card and that path.
C26_TrackPathResolution ==
    /\ Configured =>
           \A i \in 1..Len(conf.entries) :
               LET e == conf.entries[i] IN
               Unwrap(conf.library)[Denotes(e.key).value] = Track(Expected(e))
    /\ conf.op = "tap" =>
           \A i \in 1..Len(conf.entries) :
               LET e == conf.entries[i]
                   t == Track(Expected(e)) IN
               Denotes(e.key).value = conf.card =>
                   /\ Len(conf.tap.calls) = 1
                   /\ conf.tap.calls[1] = PlayCall(t, conf.tap.calls[1].ok)
                   /\ conf.tap.calls[1].ok => conf.tap.result = Ok(Started(conf.card, t))

\* "0102" -> "s" under "/m": the tap starts "/m/s"
C26_Witness ==
    /\ conf.op = "tap"
    /\ conf.music_dir = <<Sep, 109>>
    /\ conf.card = CardUid(1)
    /\ \E i \in 1..Len(conf.entries) :
           conf.entries[i] = RawEntry(<<48, 49, 48, 50>>, <<115>>)
    /\ conf.tap.calls = <<PlayCall(Track(<<Sep, 109, Sep, 115>>), TRUE)>>
    /\ conf.tap.result = Ok(Started(CardUid(1), Track(<<Sep, 109, Sep, 115>>)))


(* ------------- properties of telemetry and the status display ----------- *)

RecordedIdle == tele.op \in {"record_idle", "idle_sink"}
RecordedAction == tele.op \in {"record_action", "action_sink"}

\* C29: record_idle increases the idle count by exactly one and leaves
\* last_action as it was; record_action sets last_action to its argument and
\* leaves the idle count as it was; so the status, and every snapshot at
\* the time it is taken, has the number of record_idle calls made so far as
\* its idle count and the argument of the latest record_action, None when
\* there was none, as its last_action.
C29_TelemetryCounts ==
    /\ RecordedIdle =>
           /\ tele.status.idle_events = tele.before.idle_events + 1
           /\ tele.status.last_action = tele.before.last_action
    /\ RecordedAction =>
           /\ tele.status.last_action = tele.arg
           /\ tele.status.idle_events = tele.before.idle_events
    /\ tele.status.idle_events = tele.idles
    /\ tele.status.last_action = tele.latest
    /\ tele.op \in {"snapshot", "action_snapshot", "idle_snapshot"} =>
           /\ Unwrap(tele.snap).idle_events = tele.idles
           /\ Unwrap(tele.snap).last_action = tele.latest
C29_Witness ==
    /\ tele.op = "snapshot"
    /\ tele.idles = 1
    /\ tele.latest # None
    /\ tele.n = MaxRecords

\* The step is the end of a sink that locked its display and found the
\* mutex poisoned, or updated it and was given an error
DisplayFailed ==
    /\ thr["run_loop"].pc = "push"
    /\ thr["run_loop"]'.pc = "idle"
    /\ tele'.display \in {Some("error"), Some("poisoned")}

\* C30: when the display update fails, or the display's mutex is poisoned,
\* inside the action sink or the idle sink, the failure is logged, the sink
\* returns, the run loop goes on to its next iteration without returning,
\* and the controller and the status are left as they were: the controller
\* as process_next_event left it, the status with the action or the idle
\* poll recorded.
C30_DisplayFailureNotFatal ==
    [][DisplayFailed =>
          /\ tele'.push.warned # <<>>
          /\ tele'.returned
          /\ loop'.continues
          /\ loop'.returned = None
          /\ active' = active
          /\ library' = library
          /\ tele'.status = tele.status
          /\ tele'.idles = tele.idles
          /\ tele'.latest = tele.latest]_vars
C30_Witness ==
    /\ tele.op = "idle_push"
    /\ tele.display = Some("error")
    /\ tele.push.warned # <<>>
    /\ thr["run_loop"].pc = "idle"
    /\ loop.continues
    /\ tele.status.last_action # None
    /\ active # None


(* -------------------- properties of the no-op reader -------------------- *)

NoopCalls == 1..Len(noop.returned)
AllIdle == \A i \in NoopCalls : noop.returned[i] = Ok(Idle)
ShutdownThenIdle ==
    \A i \in NoopCalls : noop.returned[i] = IF i = 1 THEN Ok(Shutdown) ELSE Ok(Idle)
NeverCardOrError ==
    \A i \in NoopCalls : noop.returned[i] \in {Ok(Idle), Ok(Shutdown)}

\* C31 as stated: when MUSICBOX_NOOP_SHUTDOWN is set to a value other than
\* "0" the first next_event returns Shutdown and every later one Idle; when
\* it is unset or "0" every call returns Idle; no call returns CardPresent
\* or an error.
C31_ShutdownOnceWhenSet ==
    /\ (noop.env.kind # "unset" /\ noop.env # EnvValue(<<48>>)) => ShutdownThenIdle
    /\ (noop.env.kind = "unset" \/ noop.env = EnvValue(<<48>>)) => AllIdle
    /\ NeverCardOrError

\* C31, amended: when MUSICBOX_NOOP_SHUTDOWN is set to a valid Unicode value
\* other than "0" the first next_event returns Shutdown and every later one
\* Idle; when it is unset, "0" or not valid Unicode every call returns Idle;
\* no call returns CardPresent or an error.
C31_ShutdownOnceWhenSetToText ==
    /\ (noop.env.kind = "value" /\ noop.env # EnvValue(<<48>>)) => ShutdownThenIdle
    /\ (noop.env.kind # "value" \/ noop.env = EnvValue(<<48>>)) => AllIdle
    /\ NeverCardOrError
C31_Witness ==
    /\ noop.env = EnvValue(<<>>)
    /\ Len(noop.returned) = MaxNoopCalls
    /\ noop.returned[1] = Ok(Shutdown)
    /\ noop.returned[2] = Ok(Idle)


(* ------------------ properties of the driver's state -------------------- *)

\* C32: in every state of the PC/SC driver a recorded last-seen identity
\* implies that the driver holds a card handle; whenever it holds none, the
\* last-seen identity is None.
C32_LastUidOnlyWhileConnected ==
    /\ drv.last_uid # None => drv.card # None
    /\ drv.card = None => drv.last_uid = None
    /\ poll.pre.card = None => poll.pre.last_uid = None
C32_Witness ==
    /\ poll.pre.card # None
    /\ poll.pre.last_uid # None
    /\ Kind = "retry"
    /\ drv.card = None
    /\ drv.last_uid = None


(* --------------- properties of the events the driver returns ------------ *)

\* The last poll returned CardPresent for the identity of the CardPresent
\* returned before it
PresentedAgain ==
    /\ poll.ret.ok
    /\ poll.ret.value # None
    /\ Unwrap(poll.ret.value).kind = "CardPresent"
    /\ taps.prevUid = taps.uid

\* C33: between two CardPresent events of one identity that have no
\* CardPresent of another identity between them there is a poll that left
\* the driver Disconnected; and Idle is returned only when the identity just
\* read is the recorded last-seen identity.
C33_PresentAgainOnlyAfterDrop ==
    /\ PresentedAgain => taps.prevDropped
    /\ poll.ret = Ok(Some(Idle)) =>
           /\ Kind = "read"
           /\ poll.pre.last_uid = Some(ReadOf(poll.io))
           /\ drv.last_uid = Some(ReadOf(poll.io))
    /\ poll.returned = Some(Ok(Idle)) => poll.ret = Ok(Some(Idle))
C33_Witness ==
    /\ PresentedAgain
    /\ taps.prevDropped
    /\ poll.returned = Some(Ok(CardPresent(Unwrap(taps.uid))))
    /\ hist.kind = "absent"


(* ------------ properties of driver, run loop and controller ------------- *)

\* The card of the current run of polls, when the Library maps it
SeatedCard == Unwrap(dedupRun.uid)
Seated == dedupRun.live /\ SeatedCard \in DOMAIN library
Plays(cs) == {i \in 1..Len(cs) : cs[i].op = "play"}

\* C34: while one mapped card is read by consecutive polls over one open
\* channel, the controller gets exactly one handle_card call for it; when
\* the card was not the active one before and the player did not fail, that
\* call is the only play() of the run, no stop() follows it, and the card
\* stays active.
C34_SeatedCardHandledOnce ==
    Seated =>
        /\ box.handled = <<SeatedCard>>
        /\ (AllOk(box.calls)
              /\ (box.before = None \/ Unwrap(box.before).card # SeatedCard)) =>
               /\ Cardinality(Plays(box.calls)) = 1
               /\ box.calls[Len(box.calls)] = PlayCall(library[SeatedCard], TRUE)
               /\ active = Some(ActiveTrack(SeatedCard, library[SeatedCard]))
C34_Witness ==
    /\ Seated
    /\ Len(dedupRun.events) = MaxPolls
    /\ poll.returned = Some(Ok(Idle))
    /\ box.handled = <<CardUid(1)>>
    /\ box.calls = <<PlayCall(DefaultLibrary[CardUid(1)], TRUE)>>
    /\ active = Some(ActiveTrack(CardUid(1), DefaultLibrary[CardUid(1)]))

\* A card was read, a later poll found it absent, and the last poll read
\* the same card again
Retapped ==
    /\ Kind = "read"
    /\ hist.kind = "absent"
    /\ hist.read = Some(ReadOf(poll.io))
    /\ ReadOf(poll.io) \in DOMAIN library

\* C35: when a mapped card is presented while nothing is active, a poll
\* then finds it absent, and the same card is presented again, and the
\* player does not fail, the controller's actions are Started and then
\* Stopped for that card, and the player's calls play(track) and then stop().
C35_RetapTogglesOff ==
    (Retapped /\ loop.continues /\ box.prev.before = None
        /\ AllOk(box.prev.calls) /\ AllOk(box.last.calls)) =>
        LET u == ReadOf(poll.io)
            t == library[u] IN
        /\ poll.returned = Some(Ok(CardPresent(u)))
        /\ loop.handled = <<u>>
        /\ box.prev.result = Ok(Action(Started(u, t)))
        /\ box.prev.calls = <<PlayCall(t, TRUE)>>
        /\ box.last.before = Some(ActiveTrack(u, t))
        /\ box.last.result = Ok(Action(Stopped(u, t)))
        /\ box.last.calls = <<StopCall(TRUE)>>
        /\ result = box.last.result
        /\ active = None
C35_Witness ==
    /\ Retapped
    /\ ReadOf(poll.io) = CardUid(1)
    /\ box.prev.result = Ok(Action(Started(CardUid(1), DefaultLibrary[CardUid(1)])))
    /\ result = Ok(Action(Stopped(CardUid(1), DefaultLibrary[CardUid(1)])))
    /\ calls = <<StopCall(TRUE)>>
    /\ active = None


(* --------------- properties of toggle-off and the Library --------------- *)

\* The active card was tapped while the Library does not map it
IsToggleOffUnmapped == IsToggleOff /\ Tapped \notin DOMAIN library

\* C36: a tap of the active card does not consult the Library: also when
\* the Library does not, or no longer, map the card, the tap makes the one
\* call stop(), never returns TrackNotFound, and, when stop() succeeds,
\* clears the active state and returns Stopped with the pair that was
\* active.
C36_ToggleOffBeforeLookup ==
    IsToggleOffUnmapped =>
        /\ result # Err(TrackNotFound)
        /\ calls \in {<<StopCall(TRUE)>>, <<StopCall(FALSE)>>}
        /\ calls = <<StopCall(TRUE)>> =>
               /\ result = Ok(Stopped(Tapped, Prev.track))
               /\ active = None
        /\ calls = <<StopCall(FALSE)>> => result = Err(Audio)
C36_Witness ==
    /\ IsToggleOffUnmapped
    /\ library = <<>>
    /\ result = Ok(Stopped(CardUid(1), Track("song1.mp3")))
    /\ active = None


(* ------------------ properties of next_event's waiting ------------------ *)

\* next_event returned an event of the seated card from a poll made after
\* the card was seated
ReturnedSeated ==
    /\ seat.seated
    /\ seat.polls >= 1
    /\ poll.returned \in {Some(Ok(CardPresent(Unwrap(seat.card)))), Some(Ok(Idle))}

\* C37: once a readable card stays present and the backend reports no
\* failure, next_event returns CardPresent or Idle after finitely many polls
\* (the first); next_event sleeps only after a poll that gave no event, and
\* not before it returns an event or an error.
C37_NextEventReturns ==
    /\ [](/\ poll.slept => (poll.ret = Ok(None) /\ poll.returned = None)
          /\ poll.returned # None => ~poll.slept
          /\ ~poll.ret.ok => poll.returned = Some(Err(poll.ret.value))
          /\ (seat.seated /\ seat.polls >= 1) => ReturnedSeated)
    /\ (seat.seated ~> ReturnedSeated)
C37_Witness ==
    /\ ReturnedSeated
    /\ seat.polls = 1
    /\ poll.returned = Some(Ok(Idle))
    /\ hist.kind = "read"


(* ---------- properties of telemetry beside the debug handlers ----------- *)

\* The action of the controller call that ran last, when it gave one
LastCallAction ==
    IF ~result.ok THEN None
    ELSE IF op = "play_card" THEN Some(result.value)
    ELSE IF op = "pause" THEN result.value
    ELSE IF op = "process_next_event" /\ result.value.kind = "Action"
    THEN Some(result.value.action)
    ELSE None
NoneInFlight == \A t \in Threads : thr[t].pc \in {"idle", "done"}

\* C38: when the run loop and the play and pause handlers act on one
\* controller, then once no operation is in flight the status has, as its
\* last_action, the action of the controller call that ran last.
C38_LastActionIsLastCall ==
    (NoneInFlight /\ LastCallAction # None) =>
        tele.status.last_action = LastCallAction


(* ------------- properties of the debug configuration update ------------- *)

\* What from_reader gives for contents: the same in every order of the
\* cards when it is a success
Parsed(contents) == FromReader(ParseText(contents), InOrder(ParseText(contents)))
\* The update_config calls that have returned
Done(t) == thr[t].pc = "done"
UpdateOf(t) == Unwrap(thr[t].pending)
ReturnedValue(t) == Unwrap(UpdateOf(t).result)
Rejected(t) == Done(t) /\ ~ReturnedValue(t).ok
                 /\ ReturnedValue(t).value.kind = "InvalidConfig"
WriteFailed(t) == Done(t) /\ ~ReturnedValue(t).ok /\ ReturnedValue(t).value = ApiIo
Committed(t) == Done(t) /\ ReturnedValue(t).ok

\* C39: contents that do not parse or validate are rejected before anything
\* is written, the step that rejects them leaving the file and the Library
\* as they were; a call whose write fails never replaces the Library; the
\* file is only touched for a call whose contents parsed, and the Library
\* is only replaced by a call that has written, with the Library its
\* contents parse to.
C39_ValidateThenCommit ==
    [][/\ \A t \in HttpThreads :
            /\ (~Done(t) /\ Rejected(t)') =>
                   /\ configFile' = configFile
                   /\ library' = library
                   /\ ~UpdateOf(t)'.wrote /\ ~UpdateOf(t)'.replaced
            /\ (~Done(t) /\ WriteFailed(t)') =>
                   /\ library' = library
                   /\ ~UpdateOf(t)'.replaced
       /\ configFile' # configFile =>
            \E t \in HttpThreads :
                /\ thr[t].pc \in {"open", "write"}
                /\ thr'[t] # thr[t]
                /\ Parsed(UpdateOf(t).contents).ok
       /\ library' # library =>
            \E t \in HttpThreads :
                /\ Committed(t)' /\ UpdateOf(t)'.wrote
                /\ Parsed(UpdateOf(t)'.contents).ok
                /\ library' = IntoLibrary(Parsed(UpdateOf(t)'.contents).value)
      ]_vars
\* One call was rejected and the write of another failed after it had
\* emptied the file: the Library is that of the start
C39_Witness ==
    /\ Rejected("http1")
    /\ WriteFailed("http2")
    /\ library = IntoLibrary(Parsed(StartContents).value)
    /\ configFile = <<>>

\* C40: once every update_config call has returned, none with a failed
\* write and one at least with its ConfigResponse, the controller's
\* Library is the one parsed from the contents the file holds.
C40_LibraryIsFileParsed ==
    (/\ \A t \in HttpThreads : thr[t].pc \in {"idle", "done"}
     /\ \A t \in HttpThreads : ~WriteFailed(t)
     /\ \E t \in HttpThreads : Committed(t)) =>
        /\ Parsed(configFile).ok
        /\ library = IntoLibrary(Parsed(configFile).value)

====
